---- MODULE Spec2Model ----
(***************************************************************************)
(* EchoAI voice assistant: the GeminiService playback sequencer and live   *)
(* session controller (services/geminiService.ts) driven by App.toggleVoice *)
(* and App.handleStopAudio.                                                *)
(*                                                                         *)
(* Time is counted in ticks of the output clock.  A playback speed is      *)
(* stored as SpeedDen times its value (speed 0.5 -> 1, 1.0 -> 2, 2.0 -> 4) *)
(* so that duration / speed is the integer (duration * SpeedDen) \div s.   *)
(* JavaScript runs handlers to completion between awaits: every action is  *)
(* the code between two suspension points.                                 *)
(***************************************************************************)
EXTENDS Integers, Sequences, FiniteSets, TLC

\* ---- bounds of the model ------------------------------------------------
MaxSessions == 2      \* connectLive calls
MaxLiveMsgs == 1      \* inbound messages delivered in SpecLive
MaxPlayMsgs == 2      \* inbound messages delivered in SpecPlay
MaxTime == 1          \* last value of audioContext.currentTime
MaxFrames == 2        \* microphone blocks captured, all sessions
MaxCalls == 2         \* function calls in one toolCall event
MaxToolMsgs == 2      \* inbound messages delivered in SpecTool
MaxTextMsgs == 2      \* inbound messages delivered in SpecText
MaxSpeaks == 2        \* speakText calls
MaxAsks == 1          \* handleSendText submissions
MaxChunks == 3        \* groundingChunks of a response
MaxTurns == 3         \* handleSendText submissions in SpecTurns
MaxHistory == 15      \* messages of the history given to connectLive
MaxLines == 2         \* lines of .env.local

\* ---- program constants ---------------------------------------------------
DefaultSpeed == 2     \* currentAudioSettings.speed = 1.0
DefaultVolume == 800  \* currentAudioSettings.volume = 0.8
RecentHistory == 10   \* history.slice(-10)
SpeedDen == DefaultSpeed
Speeds == {2, 4}      \* speeds 1.0 and 2.0 of the slider's range 0.5 .. 2.0
Durations == {2}      \* audioBuffer.duration of a decoded chunk
NoTime == 0 - 1       \* "not yet"
NaN == 0 - 999        \* the number that is not a number
NoGain == 0 - 1       \* there is no gain node
Sessions == 1 .. MaxSessions

Max(a, b) == IF a >= b THEN a ELSE b
Min(a, b) == IF a <= b THEN a ELSE b

VARIABLES
  API_KEY,            \* process.env.API_KEY is non-empty
  GEMINI_API_KEY,     \* process.env.GEMINI_API_KEY is non-empty
  audioContext,       \* this.audioContext: which output context, if any
  outputNode,         \* this.outputNode exists
  nextStartTime,      \* this.nextStartTime
  activeSources,      \* this.activeSources, as indices into sources
  speed,              \* this.currentAudioSettings.speed
  currentTime,        \* audioContext.currentTime
  sources,            \* every AudioBufferSourceNode started so far
  halted,             \* stopAudio ran since the last source was started
  sess,               \* the closure state of each connectLive call
  handlers,           \* onmessage invocations suspended at an await
  msgCount,           \* inbound messages delivered so far
  frames,             \* microphone blocks captured so far
  voiceActive,        \* App state voiceActive
  lastError,          \* App state lastError
  liveSessionRef,     \* App liveSessionRef.current (0 = null)
  uncaught,           \* operations an exception has escaped from
  toolResponses,      \* the sendToolResponse calls made so far
  liveTranscription,  \* App state liveTranscription
  lastTurn,           \* the arguments of the last onTurnComplete call
  speaks,             \* speakText invocations suspended at an await
  speakCount,         \* speakText calls made so far
  messages,           \* App state messages, the chat history
  isProcessing,       \* App state isProcessing
  groundingChunks,    \* groundingChunks of the response the backend gives
  audioSettings,      \* App state audioSettings
  volume,             \* this.currentAudioSettings.volume
  gain,               \* outputNode.gain
  contents,           \* contents of the last generateContent request of a chat
  requests,           \* backend requests issued so far, by operation
  systemInstruction,  \* config.systemInstruction of the last live.connect
  activeVoicePersona, \* App state activeVoicePersona
  history,            \* the history argument of connectLive
  envLocal,           \* the file .env.local of the build directory
  processEnv,         \* GEMINI_API_KEY of the environment of the build
  apiKey,             \* apiKey of the configuration callback
  built               \* the configuration callback has run

vars == <<API_KEY, GEMINI_API_KEY, audioContext, outputNode, nextStartTime,
          activeSources, speed, currentTime, sources, halted, sess, handlers,
          msgCount, frames, voiceActive, lastError, liveSessionRef, uncaught,
          toolResponses, liveTranscription, lastTurn, speaks, speakCount,
          messages, isProcessing, groundingChunks, audioSettings, volume,
          gain, contents, requests, systemInstruction, activeVoicePersona,
          history, envLocal, processEnv, apiKey, built>>

seqVars == <<nextStartTime, activeSources, sources, halted>>
appVars == <<voiceActive, lastError, liveSessionRef>>
credVars == <<API_KEY, GEMINI_API_KEY, envLocal, processEnv, apiKey, built>>
textVars == <<liveTranscription, lastTurn>>
speakVars == <<speaks, speakCount>>
chatVars == <<messages, isProcessing, groundingChunks>>
settingsVars == <<audioSettings, volume>>
requestVars == <<contents, requests, systemInstruction>>
personaVars == <<activeVoicePersona, history>>


\* No build has read a file: .env.local does not exist.
NoFile == [exists |-> FALSE, lines |-> <<>>]

\* The bundle of a build in a directory without .env.local: the key is the
\* one of the environment.
Built ==
  /\ built = TRUE
  /\ envLocal = NoFile
  /\ processEnv = (IF API_KEY THEN "k3" ELSE "")
  /\ apiKey = processEnv

\* this.audioContext before the first playback.
NoContext == 0

\* The output context when every playback creates one.
lazyContextAlways(ctx) == ctx + 1

\* The output context after "if (!this.audioContext) { create it }": the
\* next context when there is none, the one there is otherwise.
lazyContext(ctx) == IF ctx = NoContext THEN ctx + 1 ELSE ctx

\* The closure of a connectLive call that has not been made yet.
\* dueInput and dueOutput are the partial transcriptions the transport has
\* delivered since the last turn-complete it delivered, in delivery order;
\* sentFrames are the microphone blocks given to sendRealtimeInput, by their
\* capture numbers, and sends counts the sends of any kind.
NoSession ==
  [phase |-> "unused", ws |-> "none", promise |-> "pending",
   onopenPc |-> "none", activeSession |-> FALSE, scriptProcessor |-> FALSE,
   tracks |-> "none", inputCtx |-> "none", stopped |-> FALSE, sends |-> 0,
   sentFrames |-> <<>>,
   currentInputText |-> <<>>, currentOutputText |-> <<>>,
   dueInput |-> <<>>, dueOutput |-> <<>>]

\* liveTranscription = null, and no onTurnComplete call yet.
NoTranscription == [shown |-> FALSE, text |-> <<>>, isUser |-> FALSE]
NoTurn == [given |-> FALSE, userText |-> <<>>, assistantText |-> <<>>]

\* No request yet.
NoRequests == [chat |-> 0, speak |-> 0, live |-> 0]
NoInstruction == <<>>

\* useState({ volume: 0.8, speed: 1.0 }): a volume is stored as 1000 times
\* its value.
DefaultSettings == [volume |-> DefaultVolume, speed |-> DefaultSpeed]

\* The build defines both configuration variables from one value.  App
\* gives connectLive no history.
Init ==
  /\ audioSettings = DefaultSettings
  /\ volume = DefaultVolume
  /\ gain = NoGain
  /\ contents = <<>>
  /\ requests = NoRequests
  /\ systemInstruction = NoInstruction
  /\ activeVoicePersona = "Zephyr"
  /\ history = <<>>
  /\ API_KEY \in BOOLEAN
  /\ GEMINI_API_KEY = API_KEY
  /\ Built
  /\ toolResponses = <<>>
  /\ liveTranscription = NoTranscription
  /\ lastTurn = NoTurn
  /\ speaks = {}
  /\ speakCount = 0
  /\ messages = <<>>
  /\ isProcessing = FALSE
  /\ groundingChunks = <<>>
  /\ audioContext = NoContext
  /\ outputNode = FALSE
  /\ nextStartTime = 0
  /\ activeSources = {}
  /\ speed = DefaultSpeed
  /\ currentTime = 0
  /\ sources = <<>>
  /\ halted = FALSE
  /\ sess = [s \in Sessions |-> NoSession]
  /\ handlers = {}
  /\ msgCount = 0
  /\ frames = 0
  /\ voiceActive = FALSE
  /\ lastError = FALSE
  /\ liveSessionRef = 0
  /\ uncaught = {}

\* ---- the playback sequencer ----------------------------------------------
\* The sequencer's fields as one value, so that a handler can apply several
\* operations in a row; stops counts the stopAudio calls of the step and
\* thrown tells that an exception escaped.
Sequencer ==
  [nextStartTime |-> nextStartTime, activeSources |-> activeSources,
   sources |-> sources, halted |-> halted, stops |-> 0, thrown |-> FALSE]

\* s.stop() for every source of the set act.
stopSources(srcs, act, now) ==
  [i \in DOMAIN srcs |->
     IF i \in act /\ srcs[i].stoppedAt = NoTime
       THEN [srcs[i] EXCEPT !.stoppedAt = now]
       ELSE srcs[i]]

\* stopAudio without the try/catch around s.stop(): the first throwing source
\* ends the call before clear() and the cursor reset.
stopAudioNoCatch(q, now, T) ==
  IF T # {}
    THEN [q EXCEPT !.thrown = TRUE, !.halted = TRUE, !.stops = q.stops + 1]
    ELSE [q EXCEPT !.activeSources = {}, !.nextStartTime = 0,
                   !.sources = stopSources(q.sources, q.activeSources, now),
                   !.halted = TRUE, !.stops = q.stops + 1]

\* stopAudio().  T is the set of tracked sources whose stop() throws; such a
\* source is one that is not playing, and the exception is caught.
stopAudio(q, now, T) ==
  [q EXCEPT !.activeSources = {}, !.nextStartTime = 0,
            !.sources = stopSources(q.sources, q.activeSources, now),
            !.halted = TRUE, !.stops = q.stops + 1]

\* The cursor update without Math.max.
floorCursorNoMax(q, now) == [q EXCEPT !.nextStartTime = now]

\* this.nextStartTime = Math.max(this.nextStartTime, currentTime)
floorCursor(q, now) ==
  [q EXCEPT !.nextStartTime = Max(q.nextStartTime, now)]

\* The source a handler h creates after its decode: started at the cursor,
\* heard from the later of the cursor and the clock value now, playing at the
\* current speed.  clean: no stopAudio ran since the delivery of its message;
\* fresh: stopAudio ran since the source before it was started.
newSource(q, h, now, spd) ==
  [sess |-> h.sess, msg |-> h.id, clean |-> ~h.stopSeen,
   startArg |-> q.nextStartTime, began |-> Max(q.nextStartTime, now),
   dur |-> h.audio, rate |-> spd, fresh |-> q.halted, stoppedAt |-> NoTime]

\* Scheduling that advances the cursor by the duration, ignoring the speed.
scheduleChunkNoSpeed(q, h, now, spd) ==
  [q EXCEPT !.sources = Append(q.sources, newSource(q, h, now, spd)),
            !.nextStartTime = q.nextStartTime + h.audio,
            !.halted = FALSE,
            !.activeSources = q.activeSources \cup {Len(q.sources) + 1}]

\* Scheduling that gives the current speed to the sources already scheduled
\* as well.
scheduleChunkRetime(q, h, now, spd) ==
  [q EXCEPT !.sources =
              Append([i \in DOMAIN q.sources |->
                        [q.sources[i] EXCEPT !.rate = spd]],
                     newSource(q, h, now, spd)),
            !.nextStartTime = q.nextStartTime + (h.audio * SpeedDen) \div spd,
            !.halted = FALSE,
            !.activeSources = q.activeSources \cup {Len(q.sources) + 1}]

\* source.start(nextStartTime); nextStartTime += duration / speed;
\* activeSources.add(source)
scheduleChunk(q, h, now, spd) ==
  [q EXCEPT !.sources = Append(q.sources, newSource(q, h, now, spd)),
            !.nextStartTime = q.nextStartTime + (h.audio * SpeedDen) \div spd,
            !.halted = FALSE,
            !.activeSources = q.activeSources \cup {Len(q.sources) + 1}]

\* Assign the sequencer's variables from a value of Sequencer, record an
\* exception that escaped from operation op, and leave the suspended handlers
\* H, which see whether stopAudio ran while they were suspended.
SetSequencer(q, H, op) ==
  /\ nextStartTime' = q.nextStartTime
  /\ activeSources' = q.activeSources
  /\ sources' = q.sources
  /\ halted' = q.halted
  /\ uncaught' = IF q.thrown THEN uncaught \cup {op} ELSE uncaught
  /\ handlers' = IF q.stops > 0
                   THEN {[h EXCEPT !.stopSeen = TRUE] : h \in H}
                   ELSE H

\* When a source is heard: from the later of its start argument and the clock
\* at the start call, for duration / rate, or until it is forcibly stopped.
NaturalEnd(x) == x.began + (x.dur * SpeedDen) \div x.rate
PlayEnd(x) ==
  IF x.stoppedAt = NoTime THEN NaturalEnd(x)
  ELSE Max(x.began, Min(x.stoppedAt, NaturalEnd(x)))

\* ---- the voice system instruction -----------------------------------------
VoicePersona == {"Zephyr", "Puck", "Kore", "Charon", "Fenrir"}

\* The instruction is the sequence of its paragraphs and lines.
PERSONA_PERSONALITIES ==
  [p \in VoicePersona |-> "You are EchoAI with the " \o p \o " persona"]
BASE_INSTRUCTION == "Use Google Search grounding for every query"

\* array.slice(-n)
slice(a, n) == SubSeq(a, Max(1, Len(a) - n + 1), Len(a))

\* `${msg.role === MessageRole.USER ? 'User' : 'Assistant'}: ${msg.content}`
historyLine(msg) ==
  (IF msg.role = "user" THEN "User" ELSE "Assistant") \o ": " \o msg.content

\* The builder that keeps the first ten messages instead of the last.
buildVoiceSystemInstructionFirst(persona, hist) ==
  LET recentHistory == SubSeq(hist, 1, Min(RecentHistory, Len(hist)))
      head == <<PERSONA_PERSONALITIES[persona],
                "You can clear the chat, set volume, and set speed using "
                  \o "your tools. " \o BASE_INSTRUCTION>>
  IN IF Len(hist) > 0
       THEN head \o <<"--- Previous Conversation Context ---">>
                 \o [i \in DOMAIN recentHistory |->
                       historyLine(recentHistory[i])]
                 \o <<"--- End of Context ---",
                      "Continue the conversation naturally">>
       ELSE head

\* buildVoiceSystemInstruction(persona, history)
buildVoiceSystemInstruction(persona, hist) ==
  LET recentHistory == slice(hist, RecentHistory)
      head == <<PERSONA_PERSONALITIES[persona],
                "You can clear the chat, set volume, and set speed using "
                  \o "your tools. " \o BASE_INSTRUCTION>>
  IN IF Len(hist) > 0
       THEN head \o <<"--- Previous Conversation Context ---">>
                 \o [i \in DOMAIN recentHistory |->
                       historyLine(recentHistory[i])]
                 \o <<"--- End of Context ---",
                      "Continue the conversation naturally">>
       ELSE head

\* ---- the audio settings ----------------------------------------------------
\* gemini.setAudioSettings(settings), which App's effect calls whenever its
\* audioSettings state has changed: the settings are stored, and the gain
\* node, if there is one, is given the volume.
setAudioSettings(settings) ==
  /\ volume' = settings.volume
  /\ speed' = settings.speed
  /\ gain' = IF outputNode THEN settings.volume ELSE gain

\* ---- the live session controller -----------------------------------------
\* stop() without the null test before scriptProcessor.disconnect().
stopNoGuard(c, q, now, T) ==
  IF ~c.scriptProcessor
    THEN [c |-> [c EXCEPT !.activeSession = FALSE, !.stopped = TRUE],
          q |-> [q EXCEPT !.thrown = TRUE]]
    ELSE [c |-> [c EXCEPT !.activeSession = FALSE, !.scriptProcessor = FALSE,
                          !.tracks = "stopped", !.inputCtx = "closed",
                          !.stopped = TRUE],
          q |-> stopAudio(q, now, T)]

\* The stop() of the handle connectLive returns, on closure c and sequencer
\* q.  Closing a closed input context rejects a promise that is caught.
stop(c, q, now, T) ==
  [c |-> [c EXCEPT !.activeSession = FALSE, !.scriptProcessor = FALSE,
                   !.tracks = "stopped", !.inputCtx = "closed",
                   !.stopped = TRUE],
   q |-> stopAudio(q, now, T)]

\* callbacks.onError of App.toggleVoice
onError ==
  /\ voiceActive' = FALSE
  /\ lastError' = TRUE

\* The first connectLive call that has not been made.
NextSession == CHOOSE s \in Sessions :
  /\ sess[s].phase = "unused"
  /\ \A t \in Sessions : t < s => sess[t].phase # "unused"

\* App.toggleVoice.  Voice on: stop the retained handle.  Voice off: call
\* connectLive, which runs up to its await of getUserMedia.
toggleVoice ==
  IF voiceActive
    THEN /\ voiceActive' = FALSE
         /\ liveSessionRef' = 0
         /\ liveTranscription' = NoTranscription
         /\ IF liveSessionRef # 0
              THEN \E T \in SUBSET activeSources :
                     LET r == stop(sess[liveSessionRef], Sequencer,
                                   currentTime, T)
                     IN /\ sess' = [sess EXCEPT ![liveSessionRef] = r.c]
                        /\ SetSequencer(r.q, handlers, "stop")
              ELSE UNCHANGED <<sess, seqVars, handlers, uncaught>>
         /\ UNCHANGED <<credVars, personaVars, settingsVars, gain, requestVars, toolResponses, lastTurn, speakVars,
                        chatVars, audioContext, outputNode, speed,
                        currentTime, msgCount, frames, lastError>>
    ELSE IF ~API_KEY
      THEN /\ onError
           /\ UNCHANGED <<credVars, personaVars, settingsVars, gain, requestVars, toolResponses, textVars, speakVars, chatVars,
                 audioContext, outputNode, speed,
                          currentTime, seqVars, sess, handlers, msgCount,
                          frames, liveSessionRef, uncaught>>
      ELSE /\ \E s \in Sessions : sess[s].phase = "unused"
           /\ voiceActive' = TRUE
           /\ lastError' = FALSE
           /\ audioContext' = lazyContext(audioContext)
           /\ outputNode' = TRUE
           /\ gain' = volume
           /\ sess' = [sess EXCEPT ![NextSession].phase = "mic",
                                   ![NextSession].inputCtx = "running"]
           /\ UNCHANGED <<credVars, personaVars, settingsVars, requestVars, toolResponses, textVars, speakVars, chatVars,
                 speed, currentTime, seqVars, handlers,
                          msgCount, frames, liveSessionRef, uncaught>>

\* getUserMedia resolves: connectLive issues ai.live.connect and returns the
\* handle, which toggleVoice stores.
MicGranted(s) ==
  /\ sess[s].phase = "mic"
  /\ sess' = [sess EXCEPT ![s].phase = "live", ![s].tracks = "live",
                          ![s].ws = "connecting"]
  /\ liveSessionRef' = s
  /\ requests' = [requests EXCEPT !.live = @ + 1]
  /\ systemInstruction' =
       buildVoiceSystemInstruction(activeVoicePersona, history)
  /\ UNCHANGED <<credVars, personaVars, settingsVars, gain, contents,
                 toolResponses, textVars, speakVars, chatVars,
                 audioContext, outputNode, speed, currentTime,
                 seqVars, handlers, msgCount, frames, voiceActive, lastError,
                 uncaught>>

\* connectLive without the return in the catch of getUserMedia: the error is
\* reported and the session is connected all the same.
MicDeniedNoReturn(s) ==
  /\ sess[s].phase = "mic"
  /\ sess' = [sess EXCEPT ![s].phase = "live", ![s].ws = "connecting"]
  /\ voiceActive' = FALSE
  /\ lastError' = TRUE
  /\ liveSessionRef' = s
  /\ requests' = [requests EXCEPT !.live = @ + 1]
  /\ systemInstruction' =
       buildVoiceSystemInstruction(activeVoicePersona, history)
  /\ UNCHANGED <<credVars, personaVars, settingsVars, gain, contents,
                 toolResponses, textVars, speakVars, chatVars,
                 audioContext, outputNode, speed, currentTime,
                 seqVars, handlers, msgCount, frames, uncaught>>

\* getUserMedia rejects: MIC_ACCESS_DENIED, connectLive returns null.
MicDenied(s) ==
  /\ sess[s].phase = "mic"
  /\ sess' = [sess EXCEPT ![s].phase = "null"]
  /\ onError
  /\ UNCHANGED <<credVars, personaVars, settingsVars, gain, requestVars, toolResponses, textVars, speakVars, chatVars,
                 audioContext, outputNode, speed, currentTime,
                 seqVars, handlers, msgCount, frames, liveSessionRef,
                 uncaught>>

\* The transport opens: onopen runs up to its await of sessionPromise.
onopen(s) ==
  /\ sess[s].ws = "connecting"
  /\ sess' = [sess EXCEPT ![s].ws = "open", ![s].onopenPc = "await"]
  /\ UNCHANGED <<credVars, personaVars, settingsVars, gain, requestVars, toolResponses, textVars, speakVars, chatVars,
                 audioContext, outputNode, speed, currentTime,
                 seqVars, handlers, msgCount, frames, appVars, uncaught>>

\* sessionPromise settles and onopen resumes.  Resolved: the session
\* reference becomes live and the microphone pipeline is built; building it
\* on a closed input context throws or not, as the browser decides.
onopenResume(s, ok, throws) ==
  /\ sess[s].onopenPc = "await"
  /\ sess[s].promise = "pending"
  /\ IF ~ok
       THEN /\ sess' = [sess EXCEPT ![s].promise = "rejected",
                                    ![s].onopenPc = "done"]
            /\ onError
            /\ UNCHANGED <<liveSessionRef, uncaught>>
       ELSE IF sess[s].inputCtx = "closed" /\ throws
         THEN /\ sess' = [sess EXCEPT ![s].promise = "resolved",
                                      ![s].onopenPc = "done",
                                      ![s].activeSession = TRUE]
              /\ uncaught' = uncaught \cup {"onopen"}
              /\ UNCHANGED appVars
         ELSE /\ sess' = [sess EXCEPT ![s].promise = "resolved",
                                      ![s].onopenPc = "done",
                                      ![s].activeSession = TRUE,
                                      ![s].scriptProcessor = TRUE]
              /\ UNCHANGED <<appVars, uncaught>>
  /\ UNCHANGED <<credVars, personaVars, settingsVars, gain, requestVars, toolResponses, textVars, speakVars, chatVars,
                 audioContext, outputNode, speed, currentTime,
                 seqVars, handlers, msgCount, frames>>

\* onaudioprocess without the try/catch around the send.
onaudioprocessNoCatch(s, throws) ==
  /\ sess[s].scriptProcessor
  /\ sess[s].inputCtx = "running"
  /\ frames < MaxFrames
  /\ throws => sess[s].activeSession
  /\ frames' = frames + 1
  /\ sess' = IF sess[s].activeSession /\ ~throws
               THEN [sess EXCEPT ![s].sends = @ + 1,
                                 ![s].sentFrames = Append(@, frames + 1)]
               ELSE sess
  /\ uncaught' = IF throws THEN uncaught \cup {"onaudioprocess"}
                 ELSE uncaught
  /\ UNCHANGED <<credVars, personaVars, settingsVars, gain, requestVars,
                 toolResponses, textVars, speakVars, chatVars,
                 audioContext, outputNode, speed, currentTime,
                 seqVars, handlers, msgCount, appVars>>

\* scriptProcessor.onaudioprocess: one captured block, sent only while the
\* session reference is live; a send that throws is caught and sends nothing.
onaudioprocess(s, throws) ==
  /\ sess[s].scriptProcessor
  /\ sess[s].inputCtx = "running"
  /\ frames < MaxFrames
  /\ throws => sess[s].activeSession
  /\ frames' = frames + 1
  /\ sess' = IF sess[s].activeSession /\ ~throws
               THEN [sess EXCEPT ![s].sends = @ + 1,
                                 ![s].sentFrames = Append(@, frames + 1)]
               ELSE sess
  /\ UNCHANGED <<credVars, personaVars, settingsVars, gain, requestVars,
                 toolResponses, textVars, speakVars, chatVars,
                 audioContext, outputNode, speed, currentTime,
                 seqVars, handlers, msgCount, appVars, uncaught>>

\* onerror: (err) => callbacks.onError(err).  The transport that reports an
\* error delivers nothing more but its close.
onerror(s) ==
  /\ sess[s].ws \in {"connecting", "open"}
  /\ sess' = [sess EXCEPT ![s].ws = "error"]
  /\ onError
  /\ UNCHANGED <<credVars, personaVars, settingsVars, gain, requestVars, toolResponses, textVars, speakVars, chatVars,
                 audioContext, outputNode, speed, currentTime,
                 seqVars, handlers, msgCount, frames, liveSessionRef,
                 uncaught>>

\* onclose: () => { activeSession = null; }
onclose(s) ==
  /\ sess[s].ws \in {"connecting", "open", "error"}
  /\ sess' = [sess EXCEPT ![s].ws = "closed", ![s].activeSession = FALSE]
  /\ UNCHANGED <<credVars, personaVars, settingsVars, gain, requestVars, toolResponses, textVars, speakVars, chatVars,
                 audioContext, outputNode, speed, currentTime,
                 seqVars, handlers, msgCount, frames, appVars, uncaught>>

\* ---- inbound events --------------------------------------------------------
\* The inbound messages: a toolCall with calls function calls, an audio chunk
\* that decodes to a buffer of duration audio (0: none), a partial input and a
\* partial output transcription, the turn-complete and the interruption flag.
\* The text of the partial transcriptions of the k-th message is <<k>>.
Messages ==
  [calls : 0 .. MaxCalls, audio : {0} \cup Durations, input : BOOLEAN,
   output : BOOLEAN, turnComplete : BOOLEAN, interrupted : BOOLEAN]

\* A message with neither transcription nor turn-complete.
NoText(m) == ~m.input /\ ~m.output /\ ~m.turnComplete

\* What the promise of callbacks.onToolCall resolves with: nothing, an empty
\* string, or a text.
Undefined == "undefined"
Results == {Undefined, "", "Chat cleared."}

\* result || "OK"
OrOK(result) == IF result \in {Undefined, ""} THEN "OK" ELSE result

\* The transcription and turn-complete part of onmessage, on closure c: each
\* partial is appended to its buffer and the whole buffer given to
\* onTranscription; on turn-complete the pair of buffers is given to
\* onTurnComplete and both are emptied.
transcription(h, c, live, turn) ==
  LET c1 == IF h.input
              THEN [c EXCEPT !.currentInputText = Append(@, h.id)] ELSE c
      l1 == IF h.input
              THEN [shown |-> TRUE, text |-> c1.currentInputText,
                    isUser |-> TRUE]
              ELSE live
      c2 == IF h.output
              THEN [c1 EXCEPT !.currentOutputText = Append(@, h.id)] ELSE c1
      l2 == IF h.output
              THEN [shown |-> TRUE, text |-> c2.currentOutputText,
                    isUser |-> FALSE]
              ELSE l1
  IN IF h.turnComplete
       THEN [c |-> [c2 EXCEPT !.currentInputText = <<>>,
                              !.currentOutputText = <<>>],
             live |-> NoTranscription,
             turn |-> [given |-> TRUE, userText |-> c2.currentInputText,
                       assistantText |-> c2.currentOutputText]]
       ELSE [c |-> c2, live |-> l2, turn |-> turn]

\* The end of onmessage: if (interrupted) this.stopAudio().  The result is the
\* sequencer and the handler if it is suspended again.
onmessageTail(h, q, now, T) ==
  [q |-> IF h.interrupted THEN stopAudio(q, now, T) ELSE q, pend |-> {}]

\* onmessage from the audio chunk on: floor the cursor and await the decode,
\* or go on when there is no chunk.
onmessageAudio(h, q, now, T) ==
  IF h.audio # 0 /\ audioContext # NoContext /\ outputNode
    THEN [q |-> floorCursor(q, now),
          pend |-> {[h EXCEPT !.pc = "decode",
                              !.cursor0 = q.nextStartTime, !.clock0 = now]}]
    ELSE onmessageTail(h, q, now, T)

\* Assign the closure c of handler h's session and the callbacks' effects:
\* those of the transcription part when the handler runs to its end in this
\* step, none when it is suspended again.
SetClosure(h, c, toEnd) ==
  IF toEnd
    THEN LET t == transcription(h, c, liveTranscription, lastTurn)
         IN /\ sess' = [sess EXCEPT ![h.sess] = t.c]
            /\ liveTranscription' = t.live
            /\ lastTurn' = t.turn
    ELSE /\ sess' = [sess EXCEPT ![h.sess] = c]
         /\ UNCHANGED textVars

\* The closure c after the transport has delivered message m with number id.
delivered(c, m, id) ==
  [c EXCEPT !.dueInput = IF m.turnComplete THEN <<>>
                         ELSE IF m.input THEN Append(@, id) ELSE @,
            !.dueOutput = IF m.turnComplete THEN <<>>
                          ELSE IF m.output THEN Append(@, id) ELSE @]

\* The invocation of onmessage for message m of session s.  expectInput and
\* expectOutput are the partials delivered up to this message since the last
\* turn-complete before it.
newHandler(s, m) ==
  [id |-> msgCount + 1, sess |-> s, pc |-> "tool",
   calls |-> m.calls, call |-> 1, audio |-> m.audio,
   input |-> m.input, output |-> m.output, turnComplete |-> m.turnComplete,
   interrupted |-> m.interrupted, stopSeen |-> FALSE,
   cursor0 |-> 0, clock0 |-> 0,
   expectInput |-> IF m.input THEN Append(sess[s].dueInput, msgCount + 1)
                              ELSE sess[s].dueInput,
   expectOutput |-> IF m.output THEN Append(sess[s].dueOutput, msgCount + 1)
                                ELSE sess[s].dueOutput]

\* An inbound message m of session s is delivered: onmessage runs up to its
\* first await, of the tool handler or of the decode.
onmessage(s, m) ==
  /\ sess[s].ws = "open"
  /\ msgCount' = msgCount + 1
  /\ LET h == newHandler(s, m)
         c == delivered(sess[s], m, msgCount + 1)
     IN IF m.calls > 0
          THEN /\ handlers' = handlers \cup {h}
               /\ sess' = [sess EXCEPT ![s] = c]
               /\ UNCHANGED <<seqVars, uncaught, textVars>>
          ELSE \E T \in SUBSET activeSources :
                 LET r == onmessageAudio(h, Sequencer, currentTime, T)
                 IN /\ SetSequencer(r.q, handlers \cup r.pend, "onmessage")
                    /\ SetClosure(h, c, r.pend = {})
  /\ UNCHANGED <<credVars, personaVars, settingsVars, gain, requestVars, toolResponses, speakVars, chatVars, audioContext,
                 outputNode, speed, currentTime, frames, appVars>>

\* The rest of the loop body once the tool handler's promise has resolved
\* with result: the response is sent if the session reference is still live,
\* then the next call is dispatched or the handler goes on to the audio chunk.
sendToolResponse(h, result) ==
  /\ h \in handlers
  /\ h.pc = "tool"
  /\ toolResponses' =
       IF sess[h.sess].activeSession
         THEN Append(toolResponses, [sess |-> h.sess, msg |-> h.id,
                                     id |-> h.call, result |-> OrOK(result)])
         ELSE toolResponses
  /\ LET c == IF sess[h.sess].activeSession
                THEN [sess[h.sess] EXCEPT !.sends = @ + 1]
                ELSE sess[h.sess]
     IN IF h.calls > 1
          THEN /\ handlers' = (handlers \ {h}) \cup
                                {[h EXCEPT !.calls = @ - 1, !.call = @ + 1]}
               /\ sess' = [sess EXCEPT ![h.sess] = c]
               /\ UNCHANGED <<seqVars, uncaught, textVars>>
          ELSE \E T \in SUBSET activeSources :
                 LET r == onmessageAudio(h, Sequencer, currentTime, T)
                 IN /\ SetSequencer(r.q, (handlers \ {h}) \cup r.pend,
                                    "onmessage")
                    /\ SetClosure(h, c, r.pend = {})

\* The caller's tool handler rejects while onmessage awaits it.  The await
\* stands in no try block, so the rejection ends this invocation of
\* onmessage: nothing of the event is processed after it.
onmessageToolRejected(h) ==
  /\ h \in handlers
  /\ h.pc = "tool"
  /\ handlers' = handlers \ {h}
  /\ uncaught' = uncaught \cup {"onmessage"}
  /\ UNCHANGED <<credVars, personaVars, settingsVars, gain, requestVars,
                 toolResponses, textVars, speakVars, chatVars, audioContext,
                 outputNode, speed, currentTime, nextStartTime,
                 activeSources, sources, halted, sess, msgCount, frames,
                 appVars>>

\* The promise of a tool handler that changes no state of the caller
\* resolves with result.
onmessageToolDone(h, result) ==
  /\ sendToolResponse(h, result)
  /\ UNCHANGED <<credVars, personaVars, settingsVars, gain, requestVars,
                 speakVars, chatVars, audioContext, outputNode,
                 speed, currentTime, msgCount, frames, appVars>>

\* ---- the tool handler of App ----------------------------------------------
\* The argument level is stored as LevelDen times its value, which makes the
\* volume level / 100 the same number in thousandths; the argument rate is
\* stored like a speed.  A missing or non-numeric argument is NaN.
LevelDen == 10
MaxLevel == 100 * LevelDen
Levels == {0 - LevelDen, 50 * LevelDen, 50 * LevelDen + 5, 120 * LevelDen, NaN}
Rates == {0, 1, 3, 6, NaN}
Volumes == {0, 500, 1000}
NoArgs == [level |-> NaN, rate |-> NaN]
FunctionCalls ==
  {[name |-> n, args |-> NoArgs] : n \in {"clear_chat", "get_time"}}
    \cup {[name |-> "set_volume", args |-> [NoArgs EXCEPT !.level = l]] :
            l \in Levels}
    \cup {[name |-> "set_speed", args |-> [NoArgs EXCEPT !.rate = r]] :
            r \in Rates}

\* Math.min, Math.max and Math.round(level * 100) of a volume level
MathMin(a, b) == IF a = NaN \/ b = NaN THEN NaN ELSE Min(a, b)
MathMax(a, b) == IF a = NaN \/ b = NaN THEN NaN ELSE Max(a, b)
MathRound(v) == IF v = NaN THEN NaN ELSE (v + LevelDen \div 2) \div LevelDen

\* `${n}` and rate.toFixed(1)
numberText(n) == IF n = NaN THEN "NaN" ELSE ToString(n)
toFixed(v) ==
  IF v = NaN THEN "NaN"
  ELSE ToString(v \div SpeedDen) \o "."
         \o ToString(((v % SpeedDen) * 10) \div SpeedDen)

\* The handler with a volume that is only kept from going below 0.
onToolCallNoMin(name, args, msgs, settings) ==
  IF name = "clear_chat"
    THEN [messages |-> <<>>, audioSettings |-> settings,
          result |-> "Chat cleared."]
  ELSE IF name = "set_volume"
    THEN LET level == MathMax(0, args.level)
         IN [messages |-> msgs,
             audioSettings |-> [settings EXCEPT !.volume = level],
             result |-> "Volume set to " \o numberText(MathRound(level))
                          \o "%"]
  ELSE IF name = "set_speed"
    THEN LET rate == MathMax(SpeedDen \div 2,
                             MathMin(SpeedDen + SpeedDen, args.rate))
         IN [messages |-> msgs,
             audioSettings |-> [settings EXCEPT !.speed = rate],
             result |-> "Playback speed set to " \o toFixed(rate) \o "x"]
  ELSE [messages |-> msgs, audioSettings |-> settings,
        result |-> "Command unknown."]

\* onToolCall whose set_speed has no upper limit.
onToolCallSpeedNoMin(name, args, msgs, settings) ==
  IF name = "clear_chat"
    THEN [messages |-> <<>>, audioSettings |-> settings,
          result |-> "Chat cleared."]
  ELSE IF name = "set_volume"
    THEN LET level == MathMax(0, MathMin(MaxLevel, args.level))
         IN [messages |-> msgs,
             audioSettings |-> [settings EXCEPT !.volume = level],
             result |-> "Volume set to " \o numberText(MathRound(level))
                          \o "%"]
  ELSE IF name = "set_speed"
    THEN LET rate == MathMax(SpeedDen \div 2, args.rate)
         IN [messages |-> msgs,
             audioSettings |-> [settings EXCEPT !.speed = rate],
             result |-> "Playback speed set to " \o toFixed(rate) \o "x"]
  ELSE [messages |-> msgs, audioSettings |-> settings,
        result |-> "Command unknown."]

\* onToolCall: async (name, args) => ..., on the messages msgs and the audio
\* settings: the new messages, the new settings and the value returned.
onToolCall(name, args, msgs, settings) ==
  IF name = "clear_chat"
    THEN [messages |-> <<>>, audioSettings |-> settings,
          result |-> "Chat cleared."]
  ELSE IF name = "set_volume"
    THEN LET level == MathMax(0, MathMin(MaxLevel, args.level))
         IN [messages |-> msgs,
             audioSettings |-> [settings EXCEPT !.volume = level],
             result |-> "Volume set to " \o numberText(MathRound(level))
                          \o "%"]
  ELSE IF name = "set_speed"
    THEN LET rate == MathMax(SpeedDen \div 2,
                             MathMin(SpeedDen + SpeedDen, args.rate))
         IN [messages |-> msgs,
             audioSettings |-> [settings EXCEPT !.speed = rate],
             result |-> "Playback speed set to " \o toFixed(rate) \o "x"]
  ELSE [messages |-> msgs, audioSettings |-> settings,
        result |-> "Command unknown."]

\* The function call fc of handler h is handled by App: onToolCall runs
\* without suspending, the effect hands changed settings to the service, and
\* the loop body goes on with the value returned.
onmessageToolCall(h, fc) ==
  LET r == onToolCall(fc.name, fc.args, messages, audioSettings)
  IN /\ messages' = r.messages
     /\ audioSettings' = r.audioSettings
     /\ IF r.audioSettings # audioSettings
          THEN setAudioSettings(r.audioSettings)
          ELSE UNCHANGED <<volume, speed, gain>>
     /\ sendToolResponse(h, r.result)
     /\ UNCHANGED <<credVars, personaVars, requestVars, speakVars,
                    isProcessing, groundingChunks, audioContext, outputNode,
                    currentTime, msgCount, frames, appVars>>

\* decodeAudioData resolves: the source is created, started at the cursor and
\* tracked, and the handler runs to its end.
onmessageDecoded(h) ==
  /\ h \in handlers
  /\ h.pc = "decode"
  /\ \E T \in SUBSET activeSources :
       LET q1 == scheduleChunk(Sequencer, h, currentTime, speed)
           r == onmessageTail(h, q1, currentTime, T)
       IN SetSequencer(r.q, (handlers \ {h}) \cup r.pend, "onmessage")
  /\ SetClosure(h, sess[h.sess], TRUE)
  /\ UNCHANGED <<credVars, personaVars, settingsVars, gain, requestVars, toolResponses, speakVars, chatVars, audioContext,
                 outputNode, speed, currentTime, msgCount, frames, appVars>>

\* ---- one-shot speech ----------------------------------------------------------
\* What the speech request comes back with: audio data, a response without
\* audio data, or a rejection.
Answers == {"audio", "empty", "error"}

\* The source speakText creates: source.start() with no argument starts it at
\* the clock; it belongs to no session (sess 0) and msg is the call's number.
oneShot(q, k, now, spd, d) ==
  [sess |-> 0, msg |-> k.id, clean |-> TRUE, startArg |-> now, began |-> now,
   dur |-> d, rate |-> spd, fresh |-> q.halted, stoppedAt |-> NoTime]

\* speakText up to its await of generateContent: stopAudio, then the request.
\* The build defines process.env.API_KEY as a string, empty when there is no
\* key, so the client is constructed in either case.
speakText ==
  /\ speakCount < MaxSpeaks
  /\ speakCount' = speakCount + 1
  /\ speaks' = speaks \cup {[id |-> speakCount + 1, pc |-> "backend"]}
  /\ \E T \in SUBSET activeSources :
       SetSequencer(stopAudio(Sequencer, currentTime, T), handlers,
                    "speakText")
  /\ requests' = [requests EXCEPT !.speak = @ + 1]
  /\ UNCHANGED <<credVars, personaVars, settingsVars, gain, contents,
                 systemInstruction, toolResponses, textVars, chatVars, audioContext,
                 outputNode, speed, currentTime, sess, msgCount, frames,
                 appVars>>

\* speakText without its try/catch: a rejected request leaves the promise of
\* speakText rejected.
speakResponseNoCatch(k, answer) ==
  /\ k \in speaks
  /\ k.pc = "backend"
  /\ ~API_KEY => answer = "error"
  /\ speaks' = IF answer = "audio"
                THEN (speaks \ {k}) \cup {[k EXCEPT !.pc = "decode"]}
                ELSE speaks \ {k}
  /\ uncaught' = IF answer = "error" THEN uncaught \cup {"speakText"}
                 ELSE uncaught
  /\ audioContext' = IF answer = "audio" THEN lazyContext(audioContext)
                     ELSE audioContext
  /\ outputNode' = (outputNode \/ answer = "audio")
  /\ gain' = IF answer = "audio" THEN volume ELSE gain
  /\ UNCHANGED <<credVars, personaVars, settingsVars, requestVars, toolResponses, textVars, speakCount, chatVars,
                 speed, currentTime, seqVars, sess, handlers, msgCount,
                 frames, appVars>>

\* generateContent settles and speakText resumes.  A rejection (the backend
\* refuses a request without a key) is caught and logged; a response without
\* audio data ends the call; with audio data the output context is created if
\* there is none and the decode is awaited.
speakResponse(k, answer) ==
  /\ k \in speaks
  /\ k.pc = "backend"
  /\ ~API_KEY => answer = "error"
  /\ speaks' = IF answer = "audio"
                THEN (speaks \ {k}) \cup {[k EXCEPT !.pc = "decode"]}
                ELSE speaks \ {k}
  /\ audioContext' = IF answer = "audio" THEN lazyContext(audioContext)
                     ELSE audioContext
  /\ outputNode' = (outputNode \/ answer = "audio")
  /\ gain' = IF answer = "audio" THEN volume ELSE gain
  /\ UNCHANGED <<credVars, personaVars, settingsVars, requestVars, toolResponses, textVars, speakCount, chatVars,
                 speed, currentTime, seqVars, sess, handlers, msgCount,
                 frames, appVars, uncaught>>

\* decodeAudioData settles and speakText resumes: the source is created,
\* started at once and tracked; a failed decode is caught and logged.
speakDecoded(k, ok) ==
  /\ k \in speaks
  /\ k.pc = "decode"
  /\ speaks' = speaks \ {k}
  /\ IF ok
       THEN \E d \in Durations :
              /\ sources' = Append(sources, oneShot(Sequencer, k, currentTime,
                                                    speed, d))
              /\ activeSources' = activeSources \cup {Len(sources) + 1}
              /\ halted' = FALSE
              /\ UNCHANGED nextStartTime
       ELSE UNCHANGED seqVars
  /\ UNCHANGED <<credVars, personaVars, settingsVars, gain, requestVars, toolResponses, textVars, speakCount, chatVars,
                 audioContext, outputNode, speed, currentTime, sess, handlers,
                 msgCount, frames, appVars, uncaught>>

\* ---- text chat ------------------------------------------------------------------
\* A grounding chunk: one without web (or without uri, uri "") is no citation;
\* a title may be missing (title "").
Titles == {"", "A", "B", "C"}
Uris == {"", "u1", "u2"}
Chunks ==
  [web : {TRUE}, title : Titles, uri : Uris]
    \cup {[web |-> FALSE, title |-> "", uri |-> ""]}

\* The sequences over S of length at most n.
SeqUpTo(S, n) == UNION {[1 .. k -> S] : k \in 0 .. n}

\* groundingChunks.forEach: a chunk with web and web.uri gives a source, its
\* title "DATA_NODE" when the chunk has none.
RECURSIVE webSources(_)
webSources(chunks) ==
  IF chunks = <<>> THEN <<>>
  ELSE LET c == chunks[Len(chunks)]
           rest == webSources(SubSeq(chunks, 1, Len(chunks) - 1))
       IN IF c.web /\ c.uri # ""
            THEN Append(rest, [title |-> IF c.title = "" THEN "DATA_NODE"
                                                         ELSE c.title,
                               uri |-> c.uri])
            ELSE rest

\* a.findIndex(t => t.uri === uri), for a uri that occurs in a
findIndex(a, uri) ==
  CHOOSE i \in DOMAIN a :
    a[i].uri = uri /\ \A k \in DOMAIN a : a[k].uri = uri => i <= k

\* The entries of a at the indices of the set keep, in order.
RECURSIVE filterAt(_, _)
filterAt(a, keep) ==
  IF a = <<>> THEN <<>>
  ELSE LET rest == filterAt(SubSeq(a, 1, Len(a) - 1), keep)
       IN IF Len(a) \in keep THEN Append(rest, a[Len(a)]) ELSE rest

\* The filter that keeps the last entry of every uri.
uniqueSourcesLast(a) ==
  filterAt(a, {i \in DOMAIN a :
                 \A k \in DOMAIN a : a[k].uri = a[i].uri => k <= i})

\* sources.filter((v, i, a) => a.findIndex(t => t.uri === v.uri) === i)
uniqueSources(a) ==
  filterAt(a, {i \in DOMAIN a : findIndex(a, a[i].uri) = i})

\* What response.text and error.message can be: missing, empty, or a text.
ResponseTexts == {Undefined, "", "answer"}
ErrorMessages == {Undefined, "", "503 Service Unavailable"}
\* String.prototype.trim on the texts of the model.
trim(v) ==
  CASE v = " " -> "" [] v = " k2" -> "k2" [] v = " hello " -> "hello"
    [] OTHER -> v

\* What the input field can hold at a submit: nothing, blanks, or a text
\* with or without blanks around it.
InputTexts == {"", " ", "hello", " hello ", "weather"}

UserTexts == {"hello", "weather"}

\* The output text without the fallback.
outputTextNoSentinel(text) == IF text = Undefined THEN "" ELSE text

\* const outputText = response.text || "NO_RESPONSE_RECEIVED"
outputText(text) ==
  IF text \in {Undefined, ""} THEN "NO_RESPONSE_RECEIVED" ELSE text

\* The request contents without the history, the new turn alone.
conversationContentsNoHistory(hist, text) ==
  <<[role |-> "user", text |-> text]>>

\* conversationContents: history.map(...) and the push of the current turn.
conversationContents(hist, text) ==
  [i \in DOMAIN hist |->
     [role |-> IF hist[i].role = "user" THEN "user" ELSE "model",
      text |-> hist[i].content]]
    \o <<[role |-> "user", text |-> text]>>

\* The assistant message of a sendChatMessage that returns its list of
\* sources as it is.
assistantMessageAnyList(text, chunks) ==
  LET u == uniqueSources(webSources(chunks))
  IN [role |-> "assistant", content |-> outputText(text),
      hasSources |-> TRUE, sources |-> u]

\* The assistant message App builds from the response of sendChatMessage:
\* the output text and the deduplicated sources, undefined (hasSources FALSE)
\* when there is none.
assistantMessage(text, chunks) ==
  LET u == uniqueSources(webSources(chunks))
  IN [role |-> "assistant", content |-> outputText(text),
      hasSources |-> u # <<>>, sources |-> u]

\* The message App shows when sendChatMessage throws an error whose message
\* is err.
errorMessage(err) ==
  [role |-> "assistant",
   content |-> "UPLINK_ERROR: " \o (IF err \in {Undefined, ""}
                                      THEN "UNABLE TO RESOLVE QUERY."
                                      ELSE err),
   hasSources |-> FALSE, sources |-> <<>>]

userMessage(text) ==
  [role |-> "user", content |-> text, hasSources |-> FALSE, sources |-> <<>>]

\* handleSendText that leaves the playback alone.
handleSendTextNoStop(inputText) ==
  LET trimmedInput == trim(inputText)
  IN IF trimmedInput = "" \/ isProcessing
       THEN UNCHANGED vars
       ELSE
         /\ UNCHANGED <<seqVars, handlers, uncaught>>
         /\ IF API_KEY \/ GEMINI_API_KEY
              THEN /\ messages' = Append(messages, userMessage(trimmedInput))
                   /\ isProcessing' = TRUE
                   /\ lastError' = FALSE
                   /\ contents' = conversationContents(messages, trimmedInput)
                   /\ requests' = [requests EXCEPT !.chat = @ + 1]
              ELSE /\ messages' =
                        messages \o <<userMessage(trimmedInput),
                                      errorMessage("GEMINI_API_KEY is not configured")>>
                   /\ isProcessing' = FALSE
                   /\ lastError' = TRUE
                   /\ UNCHANGED <<contents, requests>>
         /\ UNCHANGED <<credVars, personaVars, settingsVars, gain,
                        systemInstruction, toolResponses, textVars, speakVars,
                        groundingChunks, audioContext, outputNode, speed,
                        currentTime, sess, msgCount, frames, voiceActive,
                        liveSessionRef>>

\* handleSendText that does not look at isProcessing.
handleSendTextNoGuard(inputText) ==
  LET trimmedInput == trim(inputText)
  IN IF trimmedInput = ""
       THEN UNCHANGED vars
       ELSE
         /\ \E T \in SUBSET activeSources :
              SetSequencer(stopAudio(Sequencer, currentTime, T), handlers,
                           "handleSendText")
         /\ IF API_KEY \/ GEMINI_API_KEY
              THEN /\ messages' = Append(messages, userMessage(trimmedInput))
                   /\ isProcessing' = TRUE
                   /\ lastError' = FALSE
                   /\ contents' = conversationContents(messages, trimmedInput)
                   /\ requests' = [requests EXCEPT !.chat = @ + 1]
              ELSE /\ messages' =
                        messages \o <<userMessage(trimmedInput),
                                      errorMessage("GEMINI_API_KEY is not configured")>>
                   /\ isProcessing' = FALSE
                   /\ lastError' = TRUE
                   /\ UNCHANGED <<contents, requests>>
         /\ UNCHANGED <<credVars, personaVars, settingsVars, gain,
                        systemInstruction, toolResponses, textVars, speakVars,
                        groundingChunks, audioContext, outputNode, speed,
                        currentTime, sess, msgCount, frames, voiceActive,
                        liveSessionRef>>

\* App.handleSendText up to its await of sendChatMessage.  A blank input
\* text or a request in progress returns at once.  sendChatMessage is given
\* the trimmed text and the messages of the last render as its history, and
\* throws at once when neither configuration variable gives a key: the error
\* message is shown and isProcessing is reset.
handleSendText(inputText) ==
  LET trimmedInput == trim(inputText)
  IN IF trimmedInput = "" \/ isProcessing
       THEN UNCHANGED vars
       ELSE
         /\ \E T \in SUBSET activeSources :
              SetSequencer(stopAudio(Sequencer, currentTime, T), handlers,
                           "handleSendText")
         /\ IF API_KEY \/ GEMINI_API_KEY
              THEN /\ messages' = Append(messages, userMessage(trimmedInput))
                   /\ isProcessing' = TRUE
                   /\ lastError' = FALSE
                   /\ contents' = conversationContents(messages, trimmedInput)
                   /\ requests' = [requests EXCEPT !.chat = @ + 1]
              ELSE /\ messages' =
                        messages \o <<userMessage(trimmedInput),
                                      errorMessage("GEMINI_API_KEY is not configured")>>
                   /\ isProcessing' = FALSE
                   /\ lastError' = TRUE
                   /\ UNCHANGED <<contents, requests>>
         /\ UNCHANGED <<credVars, personaVars, settingsVars, gain,
                        systemInstruction, toolResponses, textVars, speakVars,
                        groundingChunks, audioContext, outputNode, speed,
                        currentTime, sess, msgCount, frames, voiceActive,
                        liveSessionRef>>

\* handleSendText that issues the request again when it has failed.
handleSendResponseRetry(ok, text) ==
  /\ isProcessing
  /\ IF ok
       THEN /\ messages' = Append(messages,
                                  assistantMessage(text, groundingChunks))
            /\ isProcessing' = FALSE
            /\ UNCHANGED <<lastError, requests>>
       ELSE /\ requests' = [requests EXCEPT !.chat = @ + 1]
            /\ UNCHANGED <<messages, isProcessing, lastError>>
  /\ UNCHANGED <<credVars, personaVars, settingsVars, gain, contents,
                 systemInstruction, toolResponses, textVars, speakVars,
                 groundingChunks, audioContext, outputNode, speed,
                 currentTime, seqVars, sess, handlers, msgCount, frames,
                 voiceActive, liveSessionRef, uncaught>>

\* handleSendText without its finally clause.
handleSendResponseNoFinally(ok, text) ==
  /\ isProcessing
  /\ IF ok
       THEN /\ messages' = Append(messages,
                                  assistantMessage(text, groundingChunks))
            /\ isProcessing' = FALSE
            /\ UNCHANGED lastError
       ELSE /\ messages' = Append(messages, errorMessage(text))
            /\ lastError' = TRUE
            /\ UNCHANGED isProcessing
  /\ UNCHANGED <<credVars, personaVars, settingsVars, gain, requestVars,
                 toolResponses, textVars, speakVars,
                 groundingChunks, audioContext, outputNode, speed,
                 currentTime, seqVars, sess, handlers, msgCount, frames,
                 voiceActive, liveSessionRef, uncaught>>

\* handleSendText that appends to the messages of its own render, which lack
\* the user's message: setMessages([...messages, assistantMessage]).
handleSendResponseStale(ok, text) ==
  /\ isProcessing
  /\ isProcessing' = FALSE
  /\ LET before == SubSeq(messages, 1, Len(messages) - 1)
     IN IF ok
          THEN /\ messages' = Append(before,
                                     assistantMessage(text, groundingChunks))
               /\ UNCHANGED lastError
          ELSE /\ messages' = Append(before, errorMessage(text))
               /\ lastError' = TRUE
  /\ UNCHANGED <<credVars, personaVars, settingsVars, gain, requestVars,
                 toolResponses, textVars, speakVars,
                 groundingChunks, audioContext, outputNode, speed,
                 currentTime, seqVars, sess, handlers, msgCount, frames,
                 voiceActive, liveSessionRef, uncaught>>

\* generateContent settles and handleSendText resumes: the assistant message
\* of the response with text text, or the message of the error whose message
\* is text, is appended, and isProcessing is reset.
handleSendResponse(ok, text) ==
  /\ isProcessing
  /\ isProcessing' = FALSE
  /\ IF ok
       THEN /\ messages' = Append(messages,
                                  assistantMessage(text, groundingChunks))
            /\ UNCHANGED lastError
       ELSE /\ messages' = Append(messages, errorMessage(text))
            /\ lastError' = TRUE
  /\ UNCHANGED <<credVars, personaVars, settingsVars, gain, requestVars,
                 toolResponses, textVars, speakVars,
                 groundingChunks, audioContext, outputNode, speed,
                 currentTime, seqVars, sess, handlers, msgCount, frames,
                 voiceActive, liveSessionRef, uncaught>>

\* ---- the rest of the interface ---------------------------------------------
\* The sliders of the settings panel: setAudioSettings(prev => ({ ...prev,
\* speed: v })) and the effect that hands the new settings to the service.
onChangeSpeed(v) ==
  /\ v # audioSettings.speed
  /\ audioSettings' = [audioSettings EXCEPT !.speed = v]
  /\ setAudioSettings(audioSettings')
  /\ UNCHANGED <<credVars, personaVars, requestVars, toolResponses, textVars,
                 speakVars, chatVars, audioContext, outputNode, currentTime,
                 seqVars, sess, handlers, msgCount, frames, appVars,
                 uncaught>>

onChangeVolume(v) ==
  /\ v # audioSettings.volume
  /\ audioSettings' = [audioSettings EXCEPT !.volume = v]
  /\ setAudioSettings(audioSettings')
  /\ UNCHANGED <<credVars, personaVars, requestVars, toolResponses, textVars,
                 speakVars, chatVars, audioContext, outputNode, currentTime,
                 seqVars, sess, handlers, msgCount, frames, appVars,
                 uncaught>>

\* App.handleStopAudio
handleStopAudio ==
  /\ \E T \in SUBSET activeSources :
       SetSequencer(stopAudio(Sequencer, currentTime, T), handlers,
                    "stopAudio")
  /\ UNCHANGED <<credVars, personaVars, settingsVars, gain, requestVars, toolResponses, textVars, speakVars, chatVars,
                 audioContext, outputNode, speed, currentTime, sess,
                 msgCount, frames, appVars>>

\* The output clock advances.
Tick ==
  /\ audioContext # NoContext
  /\ currentTime < MaxTime
  /\ currentTime' = currentTime + 1
  /\ UNCHANGED <<credVars, personaVars, settingsVars, gain, requestVars, toolResponses, textVars, speakVars, chatVars,
                 audioContext, outputNode, speed, seqVars, sess,
                 handlers, msgCount, frames, appVars, uncaught>>

\* The 'ended' event with a handler that clears the set.
endedClear(i) ==
  /\ i \in activeSources \/ sources[i].stoppedAt # NoTime
  /\ currentTime >= PlayEnd(sources[i])
  /\ activeSources' = {}
  /\ UNCHANGED <<credVars, personaVars, settingsVars, gain, requestVars, toolResponses, textVars, speakVars, chatVars,
                 audioContext, outputNode, nextStartTime, speed,
                 currentTime, sources, halted, sess, handlers, msgCount,
                 frames, appVars, uncaught>>

\* The 'ended' event of source i, which has played to its end or has been
\* stopped: this.activeSources.delete(source).
ended(i) ==
  /\ i \in activeSources \/ sources[i].stoppedAt # NoTime
  /\ currentTime >= PlayEnd(sources[i])
  /\ activeSources' = activeSources \ {i}
  /\ UNCHANGED <<credVars, personaVars, settingsVars, gain, requestVars, toolResponses, textVars, speakVars, chatVars,
                 audioContext, outputNode, nextStartTime, speed,
                 currentTime, sources, halted, sess, handlers, msgCount,
                 frames, appVars, uncaught>>

\* The state after toggleVoice, MicGranted(1), onopen(1) and the resumption
\* of onopen: the first session is open and streaming.
OpenSession ==
  [phase |-> "live", ws |-> "open", promise |-> "resolved",
   onopenPc |-> "done", activeSession |-> TRUE, scriptProcessor |-> TRUE,
   tracks |-> "live", inputCtx |-> "running", stopped |-> FALSE, sends |-> 0,
   sentFrames |-> <<>>,
   currentInputText |-> <<>>, currentOutputText |-> <<>>,
   dueInput |-> <<>>, dueOutput |-> <<>>]

InitPlay ==
  /\ audioSettings = DefaultSettings
  /\ volume = DefaultVolume
  /\ gain = DefaultVolume
  /\ contents = <<>>
  /\ requests = [NoRequests EXCEPT !.live = 1]
  /\ systemInstruction = buildVoiceSystemInstruction("Zephyr", <<>>)
  /\ activeVoicePersona = "Zephyr"
  /\ history = <<>>
  /\ API_KEY = TRUE
  /\ GEMINI_API_KEY = TRUE
  /\ Built
  /\ toolResponses = <<>>
  /\ liveTranscription = NoTranscription
  /\ lastTurn = NoTurn
  /\ speaks = {}
  /\ speakCount = 0
  /\ messages = <<>>
  /\ isProcessing = FALSE
  /\ groundingChunks = <<>>
  /\ audioContext = lazyContext(NoContext)
  /\ outputNode = TRUE
  /\ nextStartTime = 0
  /\ activeSources = {}
  /\ speed = DefaultSpeed
  /\ currentTime = 0
  /\ sources = <<>>
  /\ halted = FALSE
  /\ sess = [s \in Sessions |-> IF s = 1 THEN OpenSession ELSE NoSession]
  /\ handlers = {}
  /\ msgCount = 0
  /\ frames = 0
  /\ voiceActive = TRUE
  /\ lastError = FALSE
  /\ liveSessionRef = 1
  /\ uncaught = {}

\* The session lifecycle with tool-call events, the output clock at rest.
NextLive ==
  \/ toggleVoice
  \/ \E s \in Sessions : MicGranted(s)
  \/ \E s \in Sessions : MicDenied(s)
  \/ \E s \in Sessions : onopen(s)
  \/ \E s \in Sessions, ok \in BOOLEAN, throws \in BOOLEAN :
       onopenResume(s, ok, throws)
  \/ \E s \in Sessions, throws \in BOOLEAN : onaudioprocess(s, throws)
  \/ \E s \in Sessions : onerror(s)
  \/ \E s \in Sessions : onclose(s)
  \/ \E s \in Sessions, m \in Messages :
       /\ msgCount < MaxLiveMsgs
       /\ m.audio = 0 /\ ~m.interrupted /\ NoText(m)
       /\ onmessage(s, m)
  \/ \E h \in handlers : onmessageToolDone(h, "Chat cleared.")

\* Playback of the audio chunks of an open session against the running
\* output clock, up to and after the stop() of its handle; the speed slider
\* is moved before the first chunk.
NextPlay ==
  \/ \E s \in Sessions, m \in Messages :
       /\ msgCount < MaxPlayMsgs
       /\ m.calls = 0 /\ NoText(m)
       /\ m.audio # 0 \/ m.interrupted
       /\ onmessage(s, m)
  \/ \E h \in handlers : onmessageDecoded(h)
  \/ \E v \in Speeds : sources = <<>> /\ onChangeSpeed(v)
  \/ handleStopAudio
  \/ voiceActive /\ toggleVoice
  \/ Tick
  \/ \E i \in activeSources : ended(i)

\* The state before a text chat whose response will carry groundingChunks.
InitChat ==
  /\ audioSettings = DefaultSettings
  /\ volume = DefaultVolume
  /\ gain = NoGain
  /\ contents = <<>>
  /\ requests = NoRequests
  /\ systemInstruction = NoInstruction
  /\ activeVoicePersona = "Zephyr"
  /\ history = <<>>
  /\ API_KEY \in BOOLEAN
  /\ GEMINI_API_KEY = API_KEY
  /\ Built
  /\ audioContext = NoContext
  /\ outputNode = FALSE
  /\ nextStartTime = 0
  /\ activeSources = {}
  /\ speed = DefaultSpeed
  /\ currentTime = 0
  /\ sources = <<>>
  /\ halted = FALSE
  /\ sess = [s \in Sessions |-> NoSession]
  /\ handlers = {}
  /\ msgCount = 0
  /\ frames = 0
  /\ voiceActive = FALSE
  /\ lastError = FALSE
  /\ liveSessionRef = 0
  /\ uncaught = {}
  /\ toolResponses = <<>>
  /\ liveTranscription = NoTranscription
  /\ lastTurn = NoTurn
  /\ speaks = {}
  /\ speakCount = 0
  /\ messages = <<>>
  /\ isProcessing = FALSE
  /\ groundingChunks \in SeqUpTo(Chunks, MaxChunks)

\* Text chat.
NextChat ==
  \/ Len(messages) < MaxAsks + MaxAsks /\ handleSendText("hello")
  \/ \E text \in ResponseTexts : handleSendResponse(TRUE, text)
  \/ \E err \in ErrorMessages : handleSendResponse(FALSE, err)

\* The three backend calls, with and without a credential.
NextKey ==
  \/ Len(messages) < MaxAsks + MaxAsks /\ handleSendText("hello")
  \/ \E text \in ResponseTexts : handleSendResponse(TRUE, text)
  \/ \E err \in ErrorMessages : handleSendResponse(FALSE, err)
  \/ speakText
  \/ \E k \in speaks, a \in Answers : speakResponse(k, a)
  \/ \E k \in speaks, ok \in BOOLEAN : speakDecoded(k, ok)
  \/ toggleVoice
  \/ \E s \in Sessions : MicGranted(s)
  \/ \E s \in Sessions : MicDenied(s)

\* Connecting: the microphone permission and the opening of the transport.
NextMic ==
  \/ toggleVoice
  \/ \E s \in Sessions : MicGranted(s)
  \/ \E s \in Sessions : MicDenied(s)
  \/ \E s \in Sessions : onopen(s)
  \/ \E s \in Sessions, ok \in BOOLEAN, throws \in BOOLEAN :
       onopenResume(s, ok, throws)
  \/ \E s \in Sessions : onclose(s)

\* The tool calls of an open session, up to the close of its transport.
NextTool ==
  \/ \E s \in Sessions, m \in Messages :
       /\ msgCount < MaxToolMsgs
       /\ m.calls > 0 /\ m.audio = 0 /\ ~m.interrupted /\ NoText(m)
       /\ onmessage(s, m)
  \/ \E h \in handlers, r \in Results : onmessageToolDone(h, r)
  \/ \E s \in Sessions : onclose(s)

\* Playback of an open session where stopAudio runs for no other reason than
\* an interruption signal.
NextBarge ==
  \/ \E s \in Sessions, m \in Messages :
       /\ msgCount < MaxPlayMsgs
       /\ m.calls = 0 /\ NoText(m)
       /\ m.audio # 0 \/ m.interrupted
       /\ onmessage(s, m)
  \/ \E h \in handlers : onmessageDecoded(h)
  \/ \E v \in Speeds : onChangeSpeed(v)
  \/ Tick
  \/ \E i \in activeSources : ended(i)

\* The transcriptions and turn-completes of an open session, with and
\* without an audio chunk in the same message.
NextText ==
  \/ \E s \in Sessions, m \in Messages :
       /\ msgCount < MaxTextMsgs
       /\ m.calls = 0 /\ ~m.interrupted /\ ~NoText(m)
       /\ onmessage(s, m)
  \/ \E h \in handlers : onmessageDecoded(h)

\* One-shot speech from the Repeat button, with no live session.
NextSpeak ==
  \/ speakText
  \/ \E k \in speaks, a \in Answers : speakResponse(k, a)
  \/ \E k \in speaks, ok \in BOOLEAN : speakDecoded(k, ok)
  \/ \E v \in Speeds : onChangeSpeed(v)
  \/ handleStopAudio
  \/ Tick
  \/ \E i \in activeSources : ended(i)

\* A text chat of several turns, with two texts to tell the turns apart.
NextTurns ==
  \/ \E text \in InputTexts :
       Len(messages) < MaxTurns + MaxTurns /\ handleSendText(text)
  \/ \E text \in ResponseTexts : handleSendResponse(TRUE, text)
  \/ \E err \in ErrorMessages : handleSendResponse(FALSE, err)

\* The three backend calls and the failures of each.
NextOnce ==
  \/ Len(messages) < MaxAsks + MaxAsks /\ handleSendText("hello")
  \/ handleSendResponse(TRUE, "answer")
  \/ handleSendResponse(FALSE, "503 Service Unavailable")
  \/ speakCount < MaxAsks /\ speakText
  \/ \E k \in speaks, a \in Answers : speakResponse(k, a)
  \/ toggleVoice
  \/ \E s \in Sessions : MicGranted(s)
  \/ \E s \in Sessions : MicDenied(s)
  \/ \E s \in Sessions : onerror(s)
  \/ \E s \in Sessions : onclose(s)

\* The histories connectLive can be given: up to MaxHistory messages whose
\* roles go round user, assistant and system from any of the three, the
\* content of the i-th being the numeral of i.
Roles == <<"user", "assistant", "system">>
Histories ==
  {[i \in 1 .. n |->
      [role |-> Roles[((i + k) % 3) + 1], content |-> ToString(i),
       hasSources |-> FALSE, sources |-> <<>>]] :
     n \in 0 .. MaxHistory, k \in 0 .. 2}

\* A caller of connectLive that passes a history, with any persona.
InitPersona ==
  /\ audioSettings = DefaultSettings
  /\ volume = DefaultVolume
  /\ gain = NoGain
  /\ contents = <<>>
  /\ requests = NoRequests
  /\ systemInstruction = NoInstruction
  /\ activeVoicePersona \in VoicePersona
  /\ history \in Histories
  /\ API_KEY = TRUE
  /\ GEMINI_API_KEY = TRUE
  /\ Built
  /\ toolResponses = <<>>
  /\ liveTranscription = NoTranscription
  /\ lastTurn = NoTurn
  /\ speaks = {}
  /\ speakCount = 0
  /\ messages = <<>>
  /\ isProcessing = FALSE
  /\ groundingChunks = <<>>
  /\ audioContext = NoContext
  /\ outputNode = FALSE
  /\ nextStartTime = 0
  /\ activeSources = {}
  /\ speed = DefaultSpeed
  /\ currentTime = 0
  /\ sources = <<>>
  /\ halted = FALSE
  /\ sess = [s \in Sessions |-> NoSession]
  /\ handlers = {}
  /\ msgCount = 0
  /\ frames = 0
  /\ voiceActive = FALSE
  /\ lastError = FALSE
  /\ liveSessionRef = 0
  /\ uncaught = {}

\* Connecting, up to the request that carries the system instruction.
NextPersona ==
  \/ toggleVoice
  \/ \E s \in Sessions : MicGranted(s)
  \/ \E s \in Sessions : MicDenied(s)

\* The tool calls of an open session as App handles them, one call in an
\* event, and the sliders.
NextSettings ==
  \/ \E s \in Sessions, m \in Messages :
       /\ msgCount < MaxToolMsgs
       /\ m.calls = 1 /\ m.audio = 0 /\ ~m.interrupted /\ NoText(m)
       /\ onmessage(s, m)
  \/ \E h \in handlers, fc \in FunctionCalls : onmessageToolCall(h, fc)
  \/ \E v \in Speeds : onChangeSpeed(v)
  \/ \E v \in Volumes : onChangeVolume(v)

\* A text chat beside an open session whose tool calls clear the chat.
NextClear ==
  \/ \E text \in UserTexts :
       Len(messages) < MaxAsks + MaxAsks /\ handleSendText(text)
  \/ \E text \in ResponseTexts : handleSendResponse(TRUE, text)
  \/ \E err \in ErrorMessages : handleSendResponse(FALSE, err)
  \/ \E s \in Sessions, m \in Messages :
       /\ msgCount < MaxToolMsgs
       /\ m.calls = 1 /\ m.audio = 0 /\ ~m.interrupted /\ NoText(m)
       /\ onmessage(s, m)
  \/ \E h \in handlers, fc \in FunctionCalls :
       fc.name \in {"clear_chat", "get_time"} /\ onmessageToolCall(h, fc)

\* The session lifecycle with the microphone running.
NextFrames ==
  \/ toggleVoice
  \/ \E s \in Sessions : MicGranted(s)
  \/ \E s \in Sessions : MicDenied(s)
  \/ \E s \in Sessions : onopen(s)
  \/ \E s \in Sessions, ok \in BOOLEAN, throws \in BOOLEAN :
       onopenResume(s, ok, throws)
  \/ \E s \in Sessions, throws \in BOOLEAN : onaudioprocess(s, throws)
  \/ \E s \in Sessions : onerror(s)
  \/ \E s \in Sessions : onclose(s)

\* Playback of both kinds: the audio of an open session and one-shot speech,
\* at the speed the slider was given before the first source.
NextTrack ==
  \/ \E s \in Sessions, m \in Messages :
       /\ msgCount + speakCount < MaxPlayMsgs
       /\ m.calls = 0 /\ NoText(m) /\ ~m.turnComplete
       /\ m.audio # 0 \/ m.interrupted
       /\ onmessage(s, m)
  \/ \E h \in handlers : onmessageDecoded(h)
  \/ msgCount + speakCount < MaxPlayMsgs /\ speakText
  \/ \E k \in speaks : speakResponse(k, "audio")
  \/ \E k \in speaks : speakDecoded(k, TRUE)
  \/ \E v \in Speeds : sources = <<>> /\ onChangeSpeed(v)
  \/ handleStopAudio
  \/ Tick
  \/ \E i \in DOMAIN sources : ended(i)

\* A text chat beside an open session whose tool calls App dispatches.
NextDispatch ==
  \/ Len(messages) < MaxAsks + MaxAsks /\ handleSendText("hello")
  \/ handleSendResponse(TRUE, "answer")
  \/ \E s \in Sessions, m \in Messages :
       /\ msgCount < MaxToolMsgs
       /\ m.calls = 1 /\ m.audio = 0 /\ ~m.interrupted /\ NoText(m)
       /\ ~m.turnComplete
       /\ onmessage(s, m)
  \/ \E h \in handlers, fc \in FunctionCalls : onmessageToolCall(h, fc)

\* The two operations that need the output context: one-shot speech and
\* the live session.
NextContext ==
  \/ speakText
  \/ \E k \in speaks, a \in Answers : speakResponse(k, a)
  \/ \E k \in speaks, ok \in BOOLEAN : speakDecoded(k, ok)
  \/ toggleVoice
  \/ \E s \in Sessions : MicGranted(s)
  \/ \E s \in Sessions : MicDenied(s)

\* The events of an open session that carry tool calls, with a handler
\* that can reject.
NextReject ==
  \/ \E s \in Sessions, m \in Messages :
       /\ msgCount < MaxLiveMsgs
       /\ m.calls > 0
       /\ onmessage(s, m)
  \/ \E h \in handlers, r \in Results : onmessageToolDone(h, r)
  \/ \E h \in handlers : onmessageToolRejected(h)
  \/ \E h \in handlers : onmessageDecoded(h)

\* A text chat beside an open session that plays audio.
NextSubmit ==
  \/ \E s \in Sessions, m \in Messages :
       /\ msgCount < MaxPlayMsgs
       /\ m.calls = 0 /\ NoText(m) /\ ~m.turnComplete /\ ~m.interrupted
       /\ m.audio # 0
       /\ onmessage(s, m)
  \/ \E h \in handlers : onmessageDecoded(h)
  \/ \E text \in InputTexts :
       Len(messages) < MaxAsks + MaxAsks /\ handleSendText(text)
  \/ handleSendResponse(TRUE, "answer")
  \/ Tick

\* The session lifecycle with the microphone running, the permission granted
\* and the session established.
NextCapture ==
  \/ toggleVoice
  \/ \E s \in Sessions : MicGranted(s)
  \/ \E s \in Sessions : onopen(s)
  \/ \E s \in Sessions, throws \in BOOLEAN : onopenResume(s, TRUE, throws)
  \/ \E s \in Sessions, throws \in BOOLEAN : onaudioprocess(s, throws)
  \/ \E s \in Sessions : onclose(s)

\* ---- the key of the build (vite.config.ts) -----------------------------------

\* The lines of .env.local: the definition of the key, a definition of it
\* that is commented out, the definition of a variable whose name ends in
\* the key's name, and the definition of some other variable, each with the
\* text that follows the equals sign.
LineNames == {"GEMINI_API_KEY", "#GEMINI_API_KEY", "VITE_GEMINI_API_KEY",
              "PORT"}
LineValues == {"", " ", "k1", " k2"}
Lines == [name : LineNames, value : LineValues]

\* .env.local: absent, or a file that defines the key at most once.
EnvFiles ==
  {NoFile} \cup
  {[exists |-> TRUE, lines |-> l] : l \in
     {f \in SeqUpTo(Lines, MaxLines) :
        Cardinality({i \in DOMAIN f : f[i].name = "GEMINI_API_KEY"}) <= 1}}

\* GEMINI_API_KEY of the environment: unset, or a key.
EnvValues == {"", "k3"}

\* envContent.match(/GEMINI_API_KEY=(.+)/): the first line that holds the
\* text GEMINI_API_KEY= followed by at least one character, wherever in the
\* line that text stands; 0 when there is none.
match(lines) ==
  LET I == {i \in DOMAIN lines :
              lines[i].name # "PORT" /\ lines[i].value # ""}
  IN IF I = {} THEN 0 ELSE CHOOSE i \in I : \A j \in I : i <= j

\* loadEnv(mode, cwd, '').GEMINI_API_KEY || '': the variable of the
\* environment when it is set, else the one the env files define.
loadEnv(file, env) ==
  LET D == {i \in DOMAIN file.lines : file.lines[i].name = "GEMINI_API_KEY"}
  IN IF env # "" THEN env
     ELSE IF D = {} THEN ""
     ELSE trim(file.lines[CHOOSE i \in D : TRUE].value)

\* The value the configuration callback gives apiKey: the trimmed capture of
\* the match in .env.local when the file exists and the capture is not
\* blank, else what loadEnv gives.
resolveApiKey(file, env) ==
  LET m == IF file.exists THEN match(file.lines) ELSE 0
      local == IF m = 0 THEN "" ELSE trim(file.lines[m].value)
  IN IF local # "" THEN local ELSE loadEnv(file, env)

\* The configuration callback runs: both variables of the bundle are defined
\* from apiKey.
defineConfig ==
  /\ ~built
  /\ apiKey' = resolveApiKey(envLocal, processEnv)
  /\ API_KEY' = (apiKey' # "")
  /\ GEMINI_API_KEY' = (apiKey' # "")
  /\ built' = TRUE
  /\ UNCHANGED <<envLocal, processEnv, personaVars, settingsVars, gain,
                 requestVars, toolResponses, textVars, speakVars, chatVars,
                 audioContext, outputNode, speed, currentTime, seqVars, sess,
                 handlers, msgCount, frames, appVars, uncaught>>

\* A build directory before the build.
InitBuild ==
  /\ audioSettings = DefaultSettings
  /\ volume = DefaultVolume
  /\ gain = NoGain
  /\ contents = <<>>
  /\ requests = NoRequests
  /\ systemInstruction = NoInstruction
  /\ activeVoicePersona = "Zephyr"
  /\ history = <<>>
  /\ API_KEY = FALSE
  /\ GEMINI_API_KEY = FALSE
  /\ envLocal \in EnvFiles
  /\ processEnv \in EnvValues
  /\ apiKey = ""
  /\ built = FALSE
  /\ toolResponses = <<>>
  /\ liveTranscription = NoTranscription
  /\ lastTurn = NoTurn
  /\ speaks = {}
  /\ speakCount = 0
  /\ messages = <<>>
  /\ isProcessing = FALSE
  /\ groundingChunks = <<>>
  /\ audioContext = NoContext
  /\ outputNode = FALSE
  /\ nextStartTime = 0
  /\ activeSources = {}
  /\ speed = DefaultSpeed
  /\ currentTime = 0
  /\ sources = <<>>
  /\ halted = FALSE
  /\ sess = [s \in Sessions |-> NoSession]
  /\ handlers = {}
  /\ msgCount = 0
  /\ frames = 0
  /\ voiceActive = FALSE
  /\ lastError = FALSE
  /\ liveSessionRef = 0
  /\ uncaught = {}

\* The build.
NextBuild == defineConfig

Next ==
  \/ NextLive \/ NextPlay \/ NextTool \/ NextBarge \/ NextText \/ NextSpeak
  \/ NextMic \/ NextChat \/ NextKey \/ NextTurns \/ NextOnce \/ NextPersona
  \/ NextSettings \/ NextClear \/ NextFrames \/ NextBuild
  \/ NextTrack \/ NextDispatch \/ NextContext
  \/ NextReject \/ NextSubmit \/ NextCapture

Spec == Init /\ [][Next]_vars
SpecLive == Init /\ [][NextLive]_vars
SpecPlay == InitPlay /\ [][NextPlay]_vars
SpecTool == InitPlay /\ [][NextTool]_vars
SpecBarge == InitPlay /\ [][NextBarge]_vars
SpecText == InitPlay /\ [][NextText]_vars
SpecSpeak == Init /\ [][NextSpeak]_vars
SpecMic == Init /\ [][NextMic]_vars
SpecChat == InitChat /\ [][NextChat]_vars
SpecKey == Init /\ [][NextKey]_vars
SpecTurns == Init /\ [][NextTurns]_vars
SpecOnce == Init /\ [][NextOnce]_vars
SpecPersona == InitPersona /\ [][NextPersona]_vars
SpecSettings == InitPlay /\ [][NextSettings]_vars
SpecClear == InitPlay /\ [][NextClear]_vars
SpecFrames == Init /\ [][NextFrames]_vars
SpecBuild == InitBuild /\ [][NextBuild]_vars
SpecTrack == InitPlay /\ [][NextTrack]_vars
SpecDispatch == InitPlay /\ [][NextDispatch]_vars
SpecContext == Init /\ [][NextContext]_vars
SpecCapture == Init /\ [][NextCapture]_vars
SpecSubmit == InitPlay /\ [][NextSubmit]_vars
SpecReject == InitPlay /\ [][NextReject]_vars

\* The session lifecycle when every step the browser and the transport owe
\* is taken in the end: the permission prompt is answered, the transport
\* opens and closes, the awaited session settles and the processor delivers
\* its blocks.  Nothing obliges the user to click or the transport to fail.
FairFrames ==
  /\ WF_vars(\E s \in Sessions : MicGranted(s) \/ MicDenied(s))
  /\ WF_vars(\E s \in Sessions : onopen(s))
  /\ WF_vars(\E s \in Sessions, ok \in BOOLEAN, throws \in BOOLEAN :
               onopenResume(s, ok, throws))
  /\ WF_vars(\E s \in Sessions, throws \in BOOLEAN :
               onaudioprocess(s, throws))
  /\ WF_vars(\E s \in Sessions : onclose(s))
SpecRelease == Init /\ [][NextFrames]_vars /\ FairFrames

\* ---- the claims --------------------------------------------------------------
LiveSources == {i \in DOMAIN sources : sources[i].sess # 0}

\* Two sources are heard at the same time.
Overlap(x, y) == Max(x.began, y.began) < Min(PlayEnd(x), PlayEnd(y))

\* C1: no two sources scheduled by the live audio path have overlapping play
\* intervals [start, start + duration/speed), a start in the past counting as
\* the clock at the start call and a forced stop ending the interval.
C1_NoOverlap ==
  \A i, j \in LiveSources :
    i < j => ~Overlap(sources[i], sources[j])

\* The cursor after source x: its start plus duration / speed.
CursorAfter(x) == x.startArg + (x.dur * SpeedDen) \div x.rate

\* The handler h resumes after its decode and starts a source.
Starts(h) == h \in handlers /\ onmessageDecoded(h)

NoStopBetween(i, j) ==
  IF i < j
    THEN sources[i].clean /\ \A k \in (i + 1) .. j : ~sources[k].fresh
    ELSE sources[j].clean /\ sources[i].clean

\* C3: chunks are scheduled in the order their events were delivered: of two
\* chunks of one session with no stopAudio between them, the one delivered
\* first does not start after the other.
C3_DeliveryOrder ==
  \A i, j \in LiveSources :
    (/\ sources[i].sess = sources[j].sess
     /\ sources[i].msg < sources[j].msg
     /\ NoStopBetween(i, j)) =>
      sources[i].startArg <= sources[j].startArg

\* The sequencer's fields that a state query shows.
Shown(q) == <<q.activeSources, q.nextStartTime, q.sources>>

\* C4: after stopAudio returns, no source is tracked and the cursor is 0,
\* however many sources were tracked; a second call changes nothing, and no
\* exception escapes, even if a tracked source's stop() throws.
C4_StopAll ==
  [][handleStopAudio =>
       /\ activeSources' = {}
       /\ nextStartTime' = 0
       /\ uncaught' = uncaught
       /\ \A i \in activeSources : sources'[i].stoppedAt # NoTime
       /\ \A T \in SUBSET activeSources' :
            LET again == stopAudio(Sequencer', currentTime', T)
            IN Shown(again) = Shown(Sequencer') /\ ~again.thrown]_vars

\* C4 witness: stopAudio has stopped two tracked sources at once.
C4_Witness ==
  /\ activeSources = {}
  /\ nextStartTime = 0
  /\ halted
  /\ \E i, j \in DOMAIN sources :
       /\ i < j
       /\ sources[i].stoppedAt = sources[j].stoppedAt
       /\ sources[i].stoppedAt # NoTime

\* A step that calls stopAudio: the manual halt, the stop() of the session
\* handle, or the end of a handler whose message has the interruption flag.
StopAudioStep ==
  \/ handleStopAudio
  \/ voiceActive /\ liveSessionRef # 0 /\ toggleVoice
  \/ \E s \in Sessions, m \in Messages : m.interrupted /\ onmessage(s, m)
  \/ \E h \in handlers, r \in Results :
       h.interrupted /\ onmessageToolDone(h, r)
  \/ \E h \in handlers : h.interrupted /\ onmessageDecoded(h)

\* C5: the cursor never decreases, except in a step that calls stopAudio,
\* which sets it to 0.
C5_CursorMonotonic ==
  [][nextStartTime' >= nextStartTime
     \/ (StopAudioStep /\ nextStartTime' = 0)]_vars

\* C5 witness: a chunk arrived with the clock behind the cursor, and the
\* cursor stayed ahead.
C5_Witness ==
  \E h \in handlers :
    /\ h.pc = "decode"
    /\ h.clock0 < h.cursor0
    /\ nextStartTime >= h.cursor0
    /\ ~h.stopSeen

\* The stop() step of App.toggleVoice on the retained handle.
StopStep == voiceActive /\ liveSessionRef # 0 /\ toggleVoice

\* C6: stop() on a session handle never throws, and a second call leaves the
\* session reference, microphone processor, media tracks, input context,
\* tracked sources and cursor as they are after the first.
C6_StopTwice ==
  [][StopStep =>
       /\ uncaught' = uncaught
       /\ \A T \in SUBSET activeSources' :
            LET again == stop(sess'[liveSessionRef], Sequencer',
                              currentTime', T)
            IN /\ again.c = sess'[liveSessionRef]
               /\ Shown(again.q) = Shown(Sequencer')
               /\ ~again.q.thrown]_vars

\* C6 witness: stop() has run on a streaming session with a tracked source.
C6_Witness ==
  /\ sess[1].stopped
  /\ ~sess[1].activeSession
  /\ ~sess[1].scriptProcessor
  /\ sess[1].tracks = "stopped"
  /\ sess[1].inputCtx = "closed"
  /\ activeSources = {}
  /\ \E i \in DOMAIN sources : sources[i].stoppedAt # NoTime

\* C7: after stop() has been called on a session handle, that session sends
\* nothing more, neither sendRealtimeInput nor sendToolResponse.
C7_NoSendAfterStop ==
  [][\A s \in Sessions :
       sess[s].stopped => sess'[s].sends = sess[s].sends]_vars

\* C8: once stop() has been called on a session handle, no audio source is
\* scheduled or tracked for that session.
C8_NoSourceAfterStop ==
  [][\A s \in Sessions :
       sess[s].stopped =>
         \A i \in DOMAIN sources' :
           sources'[i].sess = s => i \in DOMAIN sources]_vars

\* A session that has been stopped, closed or has errored.
Over(c) ==
  c.stopped \/ c.ws \in {"closed", "error"} \/ c.promise = "rejected"

\* C9: once a session has been stopped, closed or has errored, its session
\* reference never becomes live again and no new connect is issued for it.
C9_NeverLiveAgain ==
  [][\A s \in Sessions :
       Over(sess[s]) =>
         /\ ~sess[s].activeSession => ~sess'[s].activeSession
         /\ sess'[s].ws = "connecting" => sess[s].ws = "connecting"]_vars

\* A session whose microphone pipeline or inbound-event handler is attached.
Attached(c) ==
  \/ c.scriptProcessor /\ c.inputCtx = "running"
  \/ c.ws = "open"

\* C10: at most one live session has its microphone pipeline or its
\* inbound-event handler attached to the service.
C10_OneSession ==
  Cardinality({s \in Sessions : Attached(sess[s])}) <= 1

\* C11: a session-level error calls the caller's error callback in the onerror
\* step (the UI leaves voice mode and shows the error), and from then on the
\* session is not live: it sends no microphone frame and no tool response,
\* and it is not connected again.
C11_ErrorEndsSession ==
  [][\A s \in Sessions :
       /\ onerror(s) => lastError' /\ ~voiceActive'
       /\ sess[s].ws = "error" =>
            /\ sess'[s].sends = sess[s].sends
            /\ sess'[s].ws \in {"error", "closed"}]_vars

\* C12: the inbound events of one session are processed in delivery order:
\* while the handler of an event is suspended, no effect of a later event of
\* the session has taken place, neither a started source nor a tool response.
C12_InOrder ==
  \A h \in handlers :
    /\ \A i \in DOMAIN sources :
         sources[i].sess = h.sess => sources[i].msg < h.id
    /\ \A k \in DOMAIN toolResponses :
         toolResponses[k].sess = h.sess => toolResponses[k].msg <= h.id

\* The tool responses sent so far for the calls of message id.
ResponsesOf(id) == {k \in DOMAIN toolResponses : toolResponses[k].msg = id}

\* C13: while the session is live, the resolution of the handler of a function
\* call sends exactly one tool response, for that call, after the responses
\* of the calls before it in the event's list, and its result is the
\* handler's result, or "OK" when the handler returned nothing.
C13_ToolResponses ==
  [][\A h \in handlers, r \in Results :
       (sess[h.sess].activeSession /\ onmessageToolDone(h, r)) =>
         /\ h.call = Cardinality(ResponsesOf(h.id)) + 1
         /\ toolResponses' =
              Append(toolResponses,
                     [sess |-> h.sess, msg |-> h.id, id |-> h.call,
                      result |-> IF r = Undefined THEN "OK" ELSE r])]_vars

\* C14: barge-in.  The step that processes an interruption signal leaves no
\* source tracked and the cursor at 0, and no chunk delivered before a signal
\* is started after it: where stopAudio runs for interruption signals only, no
\* handler that has seen stopAudio run since its delivery starts a source.
C14_BargeIn ==
  [][/\ \A s \in Sessions, m \in Messages :
          (m.interrupted /\ m.audio = 0 /\ onmessage(s, m)) =>
            activeSources' = {} /\ nextStartTime' = 0
     /\ \A h \in handlers :
          (h.interrupted /\ onmessageDecoded(h)) =>
            activeSources' = {} /\ nextStartTime' = 0
     /\ \A h \in handlers : Starts(h) => ~h.stopSeen]_vars

\* What the caller has received when handler h has run its transcription part:
\* on turn-complete the pair of the partials delivered up to h's message, and
\* empty buffers; otherwise, per direction, the buffer that is the
\* concatenation of the partials delivered up to h's message.
Heard(h) ==
  LET c == sess'[h.sess]
  IN IF h.turnComplete
       THEN /\ lastTurn' = [given |-> TRUE, userText |-> h.expectInput,
                            assistantText |-> h.expectOutput]
            /\ c.currentInputText = <<>>
            /\ c.currentOutputText = <<>>
       ELSE /\ h.input => c.currentInputText = h.expectInput
            /\ h.output => c.currentOutputText = h.expectOutput
            /\ h.output =>
                 liveTranscription' = [shown |-> TRUE, isUser |-> FALSE,
                                       text |-> h.expectOutput]
            /\ (h.input /\ ~h.output) =>
                 liveTranscription' = [shown |-> TRUE, isUser |-> TRUE,
                                       text |-> h.expectInput]

\* C15: per direction, onTranscription receives the concatenation, in
\* delivery order, of the partials delivered since the last turn-complete; on
\* turn-complete the caller receives the accumulated pair and both buffers
\* are emptied.
C15_Transcription ==
  [][/\ \A s \in Sessions, m \in Messages :
          (m.calls = 0 /\ m.audio = 0 /\ onmessage(s, m)) =>
            Heard(newHandler(s, m))
     /\ \A h \in handlers : onmessageDecoded(h) => Heard(h)]_vars

\* The sources started by speakText.
OneShots == {i \in DOMAIN sources : sources[i].sess = 0}

\* C16: at most one one-shot utterance plays at a time, however speakText
\* calls interleave, and a call starts at most one source.
C16_OneUtterance ==
  \A i, j \in OneShots :
    i < j =>
      /\ ~Overlap(sources[i], sources[j])
      /\ sources[i].msg # sources[j].msg

\* A step of speakText in which call k fails: the request is rejected (as it
\* is without a credential), the response has no audio data, or the decode
\* fails.
SpeakFails(k) ==
  \/ speakResponse(k, "error")
  \/ speakResponse(k, "empty")
  \/ speakDecoded(k, FALSE)

Resolvable == API_KEY \/ GEMINI_API_KEY

\* C19: every backend call resolves the credential the same way: without a
\* key in either variable no request of sendChatMessage or speakText is in
\* flight and no connectLive call goes on to the microphone and the
\* connection; with a key, a call is not refused for want of one.
C19_Credential ==
  [][/\ isProcessing' => Resolvable
     /\ \A k \in speaks' : k.pc = "backend" => Resolvable
     /\ \A s \in Sessions : sess'[s].phase # "unused" => Resolvable
     /\ (Resolvable /\ handleSendText("hello")) => isProcessing'
     /\ (Resolvable /\ speakText) =>
          \E k \in speaks' : k.id = speakCount' /\ k.pc = "backend"
     /\ (Resolvable /\ ~voiceActive /\ toggleVoice) =>
          \E s \in Sessions : sess[s].phase = "unused" /\ sess'[s].phase = "mic"
    ]_vars

\* The entries of a with, of every uri, only the first entry, in the order of a.
RECURSIVE FirstSeen(_)
FirstSeen(a) ==
  IF a = <<>> THEN <<>>
  ELSE LET rest == FirstSeen(SubSeq(a, 1, Len(a) - 1))
           x == a[Len(a)]
       IN IF \E k \in DOMAIN rest : rest[k].uri = x.uri
            THEN rest
            ELSE Append(rest, x)

\* The messages built from a response of sendChatMessage.
Answered ==
  {i \in DOMAIN messages :
     /\ messages[i].role = "assistant"
     /\ messages[i].content \in {outputText(t) : t \in ResponseTexts}}

\* C20: the sources of a response are its citation entries with, of every
\* uri, the first occurrence only, in first-seen order, and no two of them
\* share a uri.
C20_UniqueSources ==
  \A i \in Answered :
    /\ messages[i].sources = FirstSeen(webSources(groundingChunks))
    /\ \A j, k \in DOMAIN messages[i].sources :
         j # k => messages[i].sources[j].uri # messages[i].sources[k].uri

\* C20 witness: the citations {A,u1}, {B,u1}, {C,u2} have given the sources
\* {A,u1}, {C,u2}.
C20_Witness ==
  /\ groundingChunks = <<[web |-> TRUE, title |-> "A", uri |-> "u1"],
                         [web |-> TRUE, title |-> "B", uri |-> "u1"],
                         [web |-> TRUE, title |-> "C", uri |-> "u2"]>>
  /\ \E i \in Answered :
       messages[i].sources = <<[title |-> "A", uri |-> "u1"],
                               [title |-> "C", uri |-> "u2"]>>

\* C21: when the backend replies with an empty or absent text, the reply that
\* sendChatMessage returns, which App appends as the assistant message, has
\* the text "NO_RESPONSE_RECEIVED", neither an empty text nor a failure; a
\* non-empty reply text is returned unchanged.
C21_Sentinel ==
  [][\A text \in ResponseTexts :
       handleSendResponse(TRUE, text) =>
         LET reply == messages'[Len(messages')]
         IN /\ Len(messages') = Len(messages) + 1
            /\ reply.role = "assistant"
            /\ reply.content # ""
            /\ lastError' = lastError
            /\ text \in {Undefined, ""} =>
                 reply.content = "NO_RESPONSE_RECEIVED"
            /\ text \notin {Undefined, ""} => reply.content = text]_vars

C21_Witness ==
  \E i \in DOMAIN messages :
    /\ messages[i].role = "assistant"
    /\ messages[i].content = "NO_RESPONSE_RECEIVED"

\* C22: the request of sendChatMessage carries a turn sequence of length
\* |history| + 1 that keeps the order of the history, gives each user message
\* the role 'user' and each assistant message the role 'model' with its
\* content unchanged, and ends with a 'user' turn holding the new text.
C22_TurnSequence ==
  [][\A text \in UserTexts :
       (Resolvable /\ handleSendText(text)) =>
         /\ Len(contents') = Len(messages) + 1
         /\ \A i \in DOMAIN messages :
              /\ contents'[i].text = messages[i].content
              /\ messages[i].role = "user" => contents'[i].role = "user"
              /\ messages[i].role = "assistant" =>
                   contents'[i].role = "model"
         /\ contents'[Len(contents')] = [role |-> "user", text |-> text]
    ]_vars

C22_Witness ==
  /\ isProcessing
  /\ Len(contents) = 3
  /\ contents[1].role = "user" /\ contents[1].text = "weather"
  /\ contents[2].role = "model" /\ contents[2].text = "answer"
  /\ contents[3].role = "user" /\ contents[3].text = "hello"

\* C23: at most once, no retries.  A backend request is issued only by the
\* call of its operation, one for a call: a chat request by an accepted
\* submit, a speech request by a speakText call, a connection by a
\* connectLive call whose microphone was granted.  The step that handles a
\* failure issues no request and leaves none in flight: a failed chat request
\* reaches the caller with the message of its error, a failed speech request
\* ends its call, and a session whose transport has failed or closed is not
\* connected again.
C23_AtMostOnce ==
  [][/\ requests'.chat # requests.chat =>
          /\ requests'.chat = requests.chat + 1
          /\ ~isProcessing /\ isProcessing'
          /\ messages' = Append(messages, userMessage("hello"))
     /\ requests'.speak # requests.speak =>
          /\ requests'.speak = requests.speak + 1
          /\ speakCount' = speakCount + 1
     /\ requests'.live # requests.live =>
          /\ requests'.live = requests.live + 1
          /\ \E s \in Sessions :
               sess[s].phase = "mic" /\ sess'[s].ws = "connecting"
     /\ \A err \in ErrorMessages :
          handleSendResponse(FALSE, err) =>
            /\ requests' = requests
            /\ ~isProcessing'
            /\ Len(messages') = Len(messages) + 1
            /\ err = "503 Service Unavailable" =>
                 messages'[Len(messages')].content = "UPLINK_ERROR: " \o err
     /\ \A k \in speaks :
          speakResponse(k, "error") =>
            requests' = requests /\ speaks' = speaks \ {k}
     /\ \A s \in Sessions :
          (onerror(s) \/ onclose(s)) =>
            /\ requests' = requests
            /\ \A t \in Sessions :
                 sess'[t].ws = "connecting" => sess[t].ws = "connecting"
            /\ \A t \in Sessions : sess'[t].phase = sess[t].phase
    ]_vars

C23_Witness ==
  /\ requests = [chat |-> 1, speak |-> 1, live |-> 1]
  /\ ~isProcessing /\ speaks = {}
  /\ messages[Len(messages)].content = "UPLINK_ERROR: 503 Service Unavailable"
  /\ \E s \in Sessions : sess[s].ws = "closed"

\* C24: the voice system instruction built from a history of n messages has a
\* transcript section with exactly the last min(n, 10) messages in their
\* order (the last 10 of 15); for an empty history it is the persona text and
\* the base instructions with no transcript section; building it changes
\* neither the history nor the state of the service.
C24_VoiceInstruction ==
  [][\A s \in Sessions :
       MicGranted(s) =>
         LET n == Len(history)
             k == IF n < 10 THEN n ELSE 10
             ins == systemInstruction'
         IN /\ ins[1] = PERSONA_PERSONALITIES[activeVoicePersona]
            /\ IF n = 0
                 THEN Len(ins) = 2
                 ELSE /\ Len(ins) = 2 + 1 + k + 2
                      /\ ins[3] = "--- Previous Conversation Context ---"
                      /\ ins[3 + k + 1] = "--- End of Context ---"
                      /\ \A j \in 1 .. k :
                           ins[3 + j] =
                             (IF history[n - k + j].role = "user"
                                THEN "User: " ELSE "Assistant: ")
                               \o history[n - k + j].content
            /\ history' = history
            /\ UNCHANGED <<seqVars, speed, volume, gain, audioContext,
                           outputNode, activeVoicePersona>>]_vars

\* C24 witness: of a history of 15 messages, the transcript holds the lines
\* of the 6th to the 15th.
C24_Witness ==
  /\ Len(history) = 15
  /\ Len(systemInstruction) = 15
  /\ systemInstruction[4] \in {"User: 6", "Assistant: 6"}
  /\ systemInstruction[13] \in {"User: 15", "Assistant: 15"}

\* C25: a set_volume tool call with a numeric level L sets the volume of the
\* settings to clamp(L, 0, 100) / 100 and leaves the speed unchanged, the new
\* volume reaches the service and its gain node through setAudioSettings, and
\* the value returned, which is sent as the tool response, is the
\* confirmation text with the rounded percentage (level 50: volume 0.5 and
\* "50").
C25_SetVolume ==
  [][\A h \in handlers, fc \in FunctionCalls :
       (/\ fc.name = "set_volume"
        /\ fc.args.level # NaN
        /\ onmessageToolCall(h, fc)) =>
         LET L == fc.args.level
             clamped == IF L < 0 THEN 0
                        ELSE IF L > 100 * LevelDen THEN 100 * LevelDen
                        ELSE L
             sent == toolResponses'[Len(toolResponses')]
         IN /\ audioSettings'.volume = clamped
            /\ audioSettings'.speed = audioSettings.speed
            /\ volume' = clamped /\ speed' = speed
            /\ gain' = clamped
            /\ Len(toolResponses') = Len(toolResponses) + 1
            /\ \E p \in 0 .. 100 :
                 /\ p * LevelDen - clamped \in (0 - 5) .. 5
                 /\ sent.result = "Volume set to " \o ToString(p) \o "%"
            /\ L = 50 * LevelDen =>
                 sent.result = "Volume set to 50%"]_vars

\* C25 witness: set_volume(level = 50) has been answered "Volume set to 50%"
\* and the volume is 0.5.
C25_Witness ==
  /\ audioSettings.volume = 500 /\ volume = 500 /\ gain = 500
  /\ toolResponses # <<>>
  /\ toolResponses[Len(toolResponses)].result = "Volume set to 50%"

\* C26: in every reachable state the audio settings have a volume in [0, 1]
\* and a speed in [0.5, 2.0], whatever the slider changes and the set_volume
\* and set_speed calls, their arguments out of range, missing or non-numeric.
C26_SettingsInRange ==
  /\ audioSettings.volume \in 0 .. 1000
  /\ audioSettings.speed \in (SpeedDen \div 2) .. (SpeedDen + SpeedDen)

\* The step handles a clear_chat call.
ClearChat ==
  \E h \in handlers, fc \in FunctionCalls :
    fc.name = "clear_chat" /\ onmessageToolCall(h, fc)

\* The message list after the step has the one before it as a prefix.
Appended ==
  /\ Len(messages') >= Len(messages)
  /\ SubSeq(messages', 1, Len(messages)) = messages

\* C27 as stated: in every step the new message list has the previous list as
\* a prefix.
C27_AppendOnly == [][Appended]_vars

\* C27: the chat history is an ordered sequence of immutable messages that
\* grows at its end only, but for the clear_chat tool call, which empties it:
\* in every step the new message list has the previous one as a prefix or, in
\* the step that handles a clear_chat call, is empty.
C27_AppendOrClear ==
  [][Appended \/ (ClearChat /\ messages' = <<>>)]_vars

\* C27 witness: the chat was cleared while a request was in flight, and the
\* reply has been appended to the emptied list.
C27_Witness ==
  /\ \E k \in DOMAIN toolResponses : toolResponses[k].result = "Chat cleared."
  /\ Len(messages) = 1
  /\ messages[1].role = "assistant"

\* C28: when a one-shot request fails, the error is shown inline: exactly one
\* assistant message is appended after the user's message, its content the
\* prefix "UPLINK_ERROR:" followed by the message of the error (by "UNABLE TO
\* RESOLVE QUERY." for an error that carries none), the error flag is set and
\* isProcessing is false again.  So it is when the request was sent and
\* rejected, and when sendChatMessage throws for want of a key.
C28_ErrorInline ==
  [][/\ \A err \in ErrorMessages :
          handleSendResponse(FALSE, err) =>
            LET shown == messages'[Len(messages')]
            IN /\ Len(messages') = Len(messages) + 1
               /\ SubSeq(messages', 1, Len(messages)) = messages
               /\ messages[Len(messages)].role = "user"
               /\ shown.role = "assistant"
               /\ err \notin {Undefined, ""} =>
                    shown.content = "UPLINK_ERROR: " \o err
               /\ err \in {Undefined, ""} =>
                    shown.content = "UPLINK_ERROR: UNABLE TO RESOLVE QUERY."
               /\ lastError' /\ ~isProcessing'
     /\ (~Resolvable /\ handleSendText("hello")) =>
          /\ Len(messages') = Len(messages) + 2
          /\ SubSeq(messages', 1, Len(messages)) = messages
          /\ messages'[Len(messages) + 1] = userMessage("hello")
          /\ messages'[Len(messages) + 2].role = "assistant"
          /\ messages'[Len(messages) + 2].content =
               "UPLINK_ERROR: GEMINI_API_KEY is not configured"
          /\ lastError' /\ ~isProcessing']_vars

C28_Witness ==
  /\ Len(messages) = 2
  /\ messages[1].role = "user"
  /\ messages[2].content = "UPLINK_ERROR: 503 Service Unavailable"
  /\ lastError /\ ~isProcessing /\ API_KEY

\* C29: a change of the playback speed applies to the chunks scheduled after
\* it only: the playback rate of a source is the speed of the settings at the
\* moment the source is scheduled, the cursor advances by the duration of the
\* chunk divided by that same speed, and the rate of a source already
\* scheduled is never changed.
C29_SpeedLaterChunks ==
  [][/\ \A i \in DOMAIN sources :
          i \in DOMAIN sources' /\ sources'[i].rate = sources[i].rate
     /\ \A v \in Speeds :
          onChangeSpeed(v) =>
            speed' = v /\ sources' = sources /\ nextStartTime' = nextStartTime
     /\ \A h \in handlers :
          Starts(h) =>
            /\ Len(sources') = Len(sources) + 1
            /\ sources'[Len(sources')].rate = speed
            /\ sources'[Len(sources')].startArg = nextStartTime
            /\ ~h.interrupted =>
                 nextStartTime' = nextStartTime + (h.audio * SpeedDen) \div speed
    ]_vars

\* C29 witness: a source scheduled at speed 1.0 and a later one at speed 2.0.
C29_Witness ==
  \E i, j \in DOMAIN sources :
    i < j /\ sources[i].rate = DefaultSpeed /\ sources[j].rate = 2 * DefaultSpeed

\* C30: microphone blocks are sent only while the session reference is live,
\* in capture order and each at most once: a step sends nothing but the block
\* captured in it, a block captured while the reference is null is dropped
\* and not sent later, and a send that throws is caught: it reaches nobody
\* and changes nothing of the session or of the caller.
C30_MicFrames ==
  [][/\ \A s \in Sessions :
          sess'[s].sentFrames # sess[s].sentFrames =>
            /\ sess[s].activeSession
            /\ frames' = frames + 1
            /\ sess'[s].sentFrames = Append(sess[s].sentFrames, frames')
     /\ \A s \in Sessions :
          \A i, j \in DOMAIN sess'[s].sentFrames :
            i < j => sess'[s].sentFrames[i] < sess'[s].sentFrames[j]
     /\ \A s \in Sessions, throws \in BOOLEAN :
          onaudioprocess(s, throws) =>
            /\ (sess[s].activeSession /\ ~throws) =>
                 sess'[s].sentFrames = Append(sess[s].sentFrames, frames')
            /\ (~sess[s].activeSession \/ throws) =>
                 /\ sess' = sess
                 /\ uncaught' = uncaught
                 /\ UNCHANGED appVars]_vars

\* C30 witness: of two blocks captured by the one session there is, the first
\* was sent and the second, captured after the reference was cleared, was not.
C30_Witness ==
  /\ frames = 2
  /\ \E s \in Sessions :
       /\ sess[s].sentFrames = <<1>>
       /\ ~sess[s].activeSession
       /\ \A t \in Sessions \ {s} : sess[t].phase = "unused"

\* C31: the key of the bundle is the one .env.local defines whenever the
\* file defines GEMINI_API_KEY, whatever the environment holds; it is the
\* key of the environment only when the file is absent or does not define
\* the key, and it is empty when neither holds one.  In every case both
\* variables of the bundle hold the same key.
C31_LocalFirst ==
  built =>
    LET D == {i \in DOMAIN envLocal.lines :
                /\ envLocal.lines[i].name = "GEMINI_API_KEY"
                /\ trim(envLocal.lines[i].value) # ""}
    IN /\ API_KEY = (apiKey # "")
       /\ GEMINI_API_KEY = API_KEY
       /\ \A i \in D : apiKey = trim(envLocal.lines[i].value)
       /\ D = {} => apiKey = processEnv

\* C32: the tracked set holds the started sources that have neither played
\* to their end nor been stopped: a tracked source has not been stopped, a
\* source that is not tracked has been stopped or is past its end, a source
\* enters the set only in the step that starts it, the completion of a
\* source removes that source alone and leaves the cursor, and the
\* completion of a source that stopAudio stopped changes nothing.
C32_TrackedSet ==
  [][/\ \A i \in DOMAIN sources' :
          /\ i \in activeSources' => sources'[i].stoppedAt = NoTime
          /\ i \notin activeSources' =>
               \/ sources'[i].stoppedAt # NoTime
               \/ currentTime' >= NaturalEnd(sources'[i])
     /\ activeSources' \ activeSources \subseteq
          DOMAIN sources' \ DOMAIN sources
     /\ \A i \in DOMAIN sources :
          ended(i) =>
            /\ activeSources' = activeSources \ {i}
            /\ nextStartTime' = nextStartTime
            /\ sources' = sources
            /\ sources[i].stoppedAt # NoTime => activeSources' = activeSources
     /\ \A i \in activeSources \ activeSources' :
          \/ sources'[i].stoppedAt # NoTime
          \/ /\ activeSources' = activeSources \ {i}
             /\ nextStartTime' = nextStartTime]_vars

\* A source has played to its end and left the set while another source is
\* tracked and the cursor stands past 0.
C32_Witness ==
  \E i, j \in DOMAIN sources :
    /\ i \notin activeSources /\ sources[i].stoppedAt = NoTime
    /\ j \in activeSources
    /\ nextStartTime > 0

\* C33: while voiceActive is false, App retains no session handle, no
\* session has its microphone pipeline attached, and no live transcription
\* is shown.
C33_VoiceFlag ==
  ~voiceActive =>
    /\ liveSessionRef = 0
    /\ \A s \in Sessions :
         ~(sess[s].scriptProcessor /\ sess[s].inputCtx = "running")
    /\ \A s \in Sessions : sess[s].tracks # "live"
    /\ liveTranscription = NoTranscription

\* The chat requests issued and not yet answered, with a key configured:
\* every request ends in one assistant message.
InFlight ==
  requests.chat -
    Cardinality({i \in DOMAIN messages : messages[i].role = "assistant"})

\* C34: at most one chat request is in flight, and one is exactly while
\* isProcessing holds; a submit with a blank input or during a request
\* changes nothing; an accepted submit appends the one user message (the
\* trimmed input) and issues one request, and the reply or failure of the
\* backend appends the one assistant message and resets isProcessing.
C34_OneRequest ==
  [][/\ API_KEY =>
          /\ InFlight' \in {0, 1}
          /\ isProcessing' <=> InFlight' = 1
     /\ \A text \in InputTexts :
          (handleSendText(text) /\ (trim(text) = "" \/ isProcessing)) =>
            UNCHANGED vars
     /\ \A text \in InputTexts :
          (handleSendText(text) /\ trim(text) # "" /\ ~isProcessing
             /\ Resolvable) =>
            /\ messages' = Append(messages, userMessage(trim(text)))
            /\ requests'.chat = requests.chat + 1
            /\ isProcessing'
     /\ requests'.chat # requests.chat =>
          ~isProcessing /\ requests'.chat = requests.chat + 1
     /\ \A ok \in BOOLEAN, text \in ResponseTexts \cup ErrorMessages :
          handleSendResponse(ok, text) =>
            /\ isProcessing /\ ~isProcessing'
            /\ Len(messages') = Len(messages) + 1
            /\ SubSeq(messages', 1, Len(messages)) = messages
            /\ messages'[Len(messages')].role = "assistant"
            /\ requests' = requests]_vars

\* A second request is in flight after the first was answered.
C34_Witness ==
  /\ isProcessing
  /\ requests.chat = 2
  /\ Len(messages) = 3
  /\ messages[2].role = "assistant"
  /\ messages[3] = userMessage("hello")

\* C35: the frame of each tool: clear_chat empties the message list and
\* leaves the audio settings; set_speed with a numeric rate sets the speed
\* to the rate clamped to 0.5 .. 2.0 and leaves the volume and the messages;
\* a name that is none of the three declared actions is answered
\* "Command unknown." and changes neither messages nor audio settings.
C35_ToolFrames ==
  [][\A h \in handlers, fc \in FunctionCalls :
       onmessageToolCall(h, fc) =>
         LET sent == toolResponses'[Len(toolResponses')]
             R == fc.args.rate
             clamped == IF R < SpeedDen \div 2 THEN SpeedDen \div 2
                        ELSE IF R > 2 * SpeedDen THEN 2 * SpeedDen
                        ELSE R
         IN /\ fc.name = "clear_chat" =>
                 /\ messages' = <<>>
                 /\ audioSettings' = audioSettings
                 /\ volume' = volume /\ speed' = speed /\ gain' = gain
            /\ (fc.name = "set_speed" /\ R # NaN) =>
                 /\ audioSettings'.speed = clamped
                 /\ speed' = clamped
                 /\ audioSettings'.volume = audioSettings.volume
                 /\ volume' = volume /\ gain' = gain
                 /\ messages' = messages
            /\ fc.name \notin {"clear_chat", "set_volume", "set_speed"} =>
                 /\ sent.result = "Command unknown."
                 /\ messages' = messages
                 /\ audioSettings' = audioSettings
                 /\ volume' = volume /\ speed' = speed /\ gain' = gain
    ]_vars

\* With messages in the list, a set_speed call above the range has been
\* answered after the volume was changed.
C35_Witness ==
  /\ Len(messages) = 2
  /\ audioSettings.speed = 2 * SpeedDen
  /\ audioSettings.volume # DefaultVolume
  /\ \E i \in DOMAIN toolResponses :
       toolResponses[i].result = "Playback speed set to 2.0x"

\* C36: the output context and its gain node are created on demand and once:
\* the gain node exists exactly when the context does, the context comes
\* into being only in speakText (with audio to play) or connectLive, and
\* a context that exists is never replaced by either.
C36_OneContext ==
  [][/\ outputNode' <=> audioContext' # NoContext
     /\ audioContext # NoContext => audioContext' = audioContext
     /\ audioContext' # audioContext =>
          \/ \E k \in speaks : speakResponse(k, "audio")
          \/ ~voiceActive /\ toggleVoice]_vars

\* speakText has reached its decode while a live session made after it, or
\* before it, uses the same context.
C36_Witness ==
  /\ audioContext # NoContext
  /\ \E k \in speaks : k.pc = "decode"
  /\ \E s \in Sessions : sess[s].phase = "live"
  /\ requests.speak = 2

\* C37: the sources of an answer are either undefined or a non-empty list:
\* they are defined exactly when some citation chunk has a web uri, every
\* source comes from such a chunk, none from a chunk without one, and a
\* source whose chunk has no title is titled "DATA_NODE".
C37_SourcesOrUndefined ==
  \A i \in Answered :
    LET m == messages[i]
        W == {k \in DOMAIN groundingChunks :
                groundingChunks[k].web /\ groundingChunks[k].uri # ""}
    IN /\ m.hasSources => m.sources # <<>>
       /\ ~m.hasSources => m.sources = <<>>
       /\ m.hasSources <=> W # {}
       /\ {m.sources[j].uri : j \in DOMAIN m.sources} =
            {groundingChunks[k].uri : k \in W}
       /\ \A j \in DOMAIN m.sources :
            /\ m.sources[j].title # ""
            /\ \E k \in W :
                 /\ groundingChunks[k].uri = m.sources[j].uri
                 /\ m.sources[j].title =
                      IF groundingChunks[k].title = "" THEN "DATA_NODE"
                      ELSE groundingChunks[k].title

\* An answer whose citation chunks all lack a web uri.
C37_Witness ==
  /\ groundingChunks = <<[web |-> FALSE, title |-> "", uri |-> ""],
                         [web |-> TRUE, title |-> "A", uri |-> ""]>>
  /\ \E i \in Answered : ~messages[i].hasSources

\* C38: the microphone of a session that is over is released: whenever a
\* session that holds a live microphone stream has been stopped, has failed,
\* has lost its transport or could not be established, its tracks are
\* stopped and its input context is closed at some later time.
C38_Released ==
  \A s \in Sessions :
    (sess[s].tracks = "live" /\ Over(sess[s])) ~>
      (sess[s].tracks = "stopped" /\ sess[s].inputCtx = "closed")

\* C39: a tool handler that rejects for one function call does not end the
\* event: the handling goes on with the next function call of the event when
\* there is one, and else with the event's audio (its decode is awaited) or,
\* without audio, with its transcription and turn-complete parts.
C39_RestOfEvent ==
  [][\A h \in handlers :
       onmessageToolRejected(h) =>
         LET t == transcription(h, sess[h.sess], liveTranscription, lastTurn)
         IN /\ h.calls > 1 =>
                 \E g \in handlers' :
                   g.id = h.id /\ g.pc = "tool" /\ g.call = h.call + 1
            /\ (h.calls = 1 /\ h.audio # 0) =>
                 \E g \in handlers' : g.id = h.id /\ g.pc = "decode"
            /\ (h.calls = 1 /\ h.audio = 0) =>
                 /\ liveTranscription' = t.live
                 /\ lastTurn' = t.turn
                 /\ sess'[h.sess] = t.c]_vars

\* C40: an accepted submit halts the playback in the step that issues its
\* request: after it no source is tracked, every source that was tracked is
\* stopped and the cursor is 0, and no request is issued by a step that
\* leaves a source tracked.
C40_SubmitHalts ==
  [][/\ \A text \in InputTexts :
          (handleSendText(text) /\ trim(text) # "" /\ ~isProcessing) =>
            /\ activeSources' = {}
            /\ nextStartTime' = 0
            /\ \A i \in activeSources : sources'[i].stoppedAt = currentTime
     /\ requests'.chat # requests.chat =>
          /\ activeSources' = {}
          /\ nextStartTime' = 0
          /\ \A i \in DOMAIN sources' :
               sources'[i].stoppedAt = NoTime =>
                 i \notin activeSources]_vars

\* The request of a submit is in flight and the sources that played when it
\* was made are stopped.
C40_Witness ==
  /\ isProcessing
  /\ requests.chat = 1
  /\ activeSources = {}
  /\ nextStartTime = 0
  /\ Len(sources) = 2
  /\ \A i \in DOMAIN sources : sources[i].stoppedAt # NoTime

====
